---- MODULE Spec2Model ----
(***************************************************************************)
(* Indicator computation, signal generation, backtest simulation and grid  *)
(* search of the stocks analyzer (src/tradingService.ts).                  *)
(*                                                                         *)
(* Numbers.  The program computes in IEEE doubles.  The model computes in  *)
(* exact rationals <<n, d>> (d > 0, lowest terms); "no value" (null or     *)
(* undefined) is the empty tuple.  Array indices are the program's 0-based *)
(* indices; At(a, i) reads a[i].                                           *)
(***************************************************************************)
EXTENDS Integers, Sequences, FiniteSets, TLC

VARIABLES
    \* ---- runBacktest: inputs
    data,          \* StockData {dates, o, h, l, c}
    ind,           \* Indicators
    p,             \* StrategyParameters
    \* ---- runBacktest: locals
    signals,       \* generateSignals(data, ind, p)
    cash, pos, trades, equity, equityDates, peak, maxDD, exposureBars,
    i,             \* the bar of the loop
    pc,            \* the position in the loop body
    result,        \* the returned BacktestResult (<<>> until the return)
    \* ---- runOptimization: inputs
    baseParams, p1Key, p1Range, p2Key, p2Range, metric,
    \* ---- runOptimization: locals
    currentParams, \* currentParams of the cell evaluated last (<<>> before)
    grid, best, row, col, opc, optResult,
    \* ---- parseRangeSpec: argument and locals (spec, min, max, step, v, out)
    rsSpec, rsMin, rsMax, rsStep, rsV, rsOut, rsPc,
    \* ---- a second call of runBacktest: calls made, the first call's result
    calls, firstResult

btVars == <<data, ind, p, signals, cash, pos, trades, equity, equityDates,
            peak, maxDD, exposureBars, i, pc, result>>
optVars == <<baseParams, p1Key, p1Range, p2Key, p2Range, metric,
             currentParams, grid, best, row, col, opc, optResult>>
rangeVars == <<rsSpec, rsMin, rsMax, rsStep, rsV, rsOut, rsPc>>
callVars == <<calls, firstResult>>
vars == <<btVars, optVars, rangeVars, callVars>>

----------------------------------------------------------------------------
(* Exact rational arithmetic.                                              *)

null == <<>>

RECURSIVE Gcd(_, _)
Gcd(a, b) == IF b = 0 THEN a ELSE Gcd(b, a % b)

AbsInt(a) == IF a < 0 THEN -a ELSE a

\* The rational n/d in lowest terms with a positive denominator (d # 0).
Rat(n, d) ==
    LET s == IF d < 0 THEN -1 ELSE 1
        g == Gcd(AbsInt(n), AbsInt(d))
    IN  <<(s * n) \div g, (s * d) \div g>>

Num(n) == <<n, 1>>

Add(a, b) ==
    LET g == Gcd(a[2], b[2])
    IN  Rat(a[1] * (b[2] \div g) + b[1] * (a[2] \div g), (a[2] \div g) * b[2])

Neg(a) == <<-a[1], a[2]>>

Sub(a, b) == Add(a, Neg(b))

Mul(a, b) ==
    LET g1 == Gcd(AbsInt(a[1]), b[2])
        g2 == Gcd(AbsInt(b[1]), a[2])
    IN  <<(a[1] \div g1) * (b[1] \div g2), (a[2] \div g2) * (b[2] \div g1)>>

\* a / b for b # 0.
Div(a, b) ==
    IF b[1] < 0 THEN Mul(a, <<-b[2], -b[1]>>) ELSE Mul(a, <<b[2], b[1]>>)

\* a < b, by the integer parts and then the reciprocals of the fractional
\* parts, so that no product of a numerator and a denominator is formed.
RECURSIVE Lt(_, _)
Lt(a, b) ==
    LET qa == a[1] \div a[2]
        qb == b[1] \div b[2]
        ra == a[1] % a[2]
        rb == b[1] % b[2]
    IN  IF qa # qb THEN qa < qb
        ELSE IF rb = 0 THEN FALSE
        ELSE IF ra = 0 THEN TRUE
        ELSE Lt(<<b[2], rb>>, <<a[2], ra>>)

Le(a, b) == ~Lt(b, a)
Gt(a, b) == Lt(b, a)
Ge(a, b) == ~Lt(a, b)

MaxR(a, b) == IF Lt(a, b) THEN b ELSE a
MinR(a, b) == IF Lt(b, a) THEN b ELSE a
AbsR(a) == IF a[1] < 0 THEN Neg(a) ELSE a

\* Math.floor
Floor(a) == a[1] \div a[2]

\* The largest k in lo..hi with k * k <= n (lo * lo <= n), by bisection.
RECURSIVE ISqrtIn(_, _, _)
ISqrtIn(n, lo, hi) ==
    IF lo >= hi THEN lo
    ELSE LET mid == (lo + hi + 1) \div 2
         IN  IF mid * mid <= n THEN ISqrtIn(n, mid, hi) ELSE ISqrtIn(n, lo, mid - 1)

ISqrt(n) == ISqrtIn(n, 0, IF n < 46340 THEN n ELSE 46340)

\* Math.sqrt (a >= 0).  Exact when numerator and denominator are both squares
\* (the variance of a window of two values always is); any other argument is
\* rounded down to a multiple of 1/SqrtDigits, where the double is rounded to
\* 53 bits.
SqrtDigits == 100

Sqrt(a) ==
    LET rn == ISqrt(a[1])
        rd == ISqrt(a[2])
    IN  IF rn * rn = a[1] /\ rd * rd = a[2] THEN <<rn, rd>>
        ELSE Rat(ISqrt((a[1] * SqrtDigits * SqrtDigits) \div a[2]), SqrtDigits)

\* a[i] of a 0-based array; undefined (no value) outside it.
At(a, k) == IF k >= 0 /\ k < Len(a) THEN a[k + 1] ELSE null

\* The 0-based indices of an array of length n.
Idx(n) == 0 .. (n - 1)

----------------------------------------------------------------------------
(* INDICATOR CALCULATIONS                                                  *)

\* The loop of rma from index k on: avg and count are its accumulators.
RECURSIVE RmaFrom(_, _, _, _, _, _)
RmaFrom(values, period, k, avg, count, out) ==
    IF k >= Len(values) THEN out
    ELSE LET v == At(values, k)
         IN  IF v = null
               THEN RmaFrom(values, period, k + 1, avg, count, Append(out, null))
             ELSE IF count < period
               THEN IF count + 1 < period
                      THEN RmaFrom(values, period, k + 1, Add(avg, v), count + 1,
                                   Append(out, null))
                      ELSE LET seed == Div(Add(avg, v), Num(period))
                           IN  RmaFrom(values, period, k + 1, seed, count + 1,
                                       Append(out, seed))
             ELSE LET next == Div(Add(Mul(avg, Num(period - 1)), v), Num(period))
                  IN  RmaFrom(values, period, k + 1, next, count, Append(out, next))

rma(values, period) == RmaFrom(values, period, 0, Num(0), 0, <<>>)

\* while (rsi.length < close.length) rsi.push(null)
RECURSIVE PadNull(_, _)
PadNull(a, n) == IF Len(a) < n THEN PadNull(Append(a, null), n) ELSE a

calcRSI(close, period) ==
    LET ch == [k \in 1 .. (Len(close) - 1) |-> Sub(close[k + 1], close[k])]
        gains == [k \in DOMAIN ch |-> IF Gt(ch[k], Num(0)) THEN ch[k] ELSE Num(0)]
        losses == [k \in DOMAIN ch |-> IF Lt(ch[k], Num(0)) THEN Neg(ch[k]) ELSE Num(0)]
        avgG == rma(gains, period)
        avgL == rma(losses, period)
        body == [k \in DOMAIN avgG |->
                    IF avgG[k] = null \/ avgL[k] = null THEN null
                    ELSE LET rs == IF avgL[k] = Num(0) THEN Num(1000)
                                   ELSE Div(avgG[k], avgL[k])
                         IN  Sub(Num(100), Div(Num(100), Add(Num(1), rs)))]
    IN  PadNull(<<null>> \o body, Len(close))

\* The loop of ema from index k on: prev, sum and n are its accumulators and
\* kk is the smoothing factor 2 / (period + 1).
RECURSIVE EmaFrom(_, _, _, _, _, _, _, _)
EmaFrom(values, period, kk, k, prev, sum, n, out) ==
    IF k >= Len(values) THEN out
    ELSE LET v == At(values, k)
         IN  IF prev = null
               THEN IF n + 1 = period
                      THEN LET seed == Div(Add(sum, v), Num(period))
                           IN  EmaFrom(values, period, kk, k + 1, seed, Add(sum, v),
                                       n + 1, Append(out, seed))
                      ELSE EmaFrom(values, period, kk, k + 1, null, Add(sum, v),
                                   n + 1, Append(out, null))
             ELSE LET next == Add(Mul(v, kk), Mul(prev, Sub(Num(1), kk)))
                  IN  EmaFrom(values, period, kk, k + 1, next, sum, n, Append(out, next))

ema(values, period) ==
    EmaFrom(values, period, Rat(2, period + 1), 0, null, Num(0), 0, <<>>)

calcMACD(close, fast, slow, signal) ==
    LET emaF == ema(close, fast)
        emaS == ema(close, slow)
        macd == [k \in DOMAIN close |->
                    IF emaF[k] # null /\ emaS[k] # null THEN Sub(emaF[k], emaS[k])
                    ELSE null]
        filled == [k \in DOMAIN macd |-> IF macd[k] = null THEN Num(0) ELSE macd[k]]
        raw == ema(filled, signal)
        sig == [k \in DOMAIN raw |-> IF macd[k] = null THEN null ELSE raw[k]]
        hist == [k \in DOMAIN macd |->
                    IF macd[k] = null \/ sig[k] = null THEN null
                    ELSE Sub(macd[k], sig[k])]
    IN  [MACD |-> macd, signal |-> sig, histogram |-> hist]

\* slice.reduce((a, b) => a + b, 0) over close[from .. to] (0-based, inclusive)
RECURSIVE SumR(_, _, _)
SumR(a, from, to) ==
    IF from > to THEN Num(0) ELSE Add(SumR(a, from, to - 1), At(a, to))

\* slice.reduce((s, x) => s + Math.pow(x - mean, 2), 0)
RECURSIVE SumSq(_, _, _, _)
SumSq(a, mean, from, to) ==
    IF from > to THEN Num(0)
    ELSE LET dev == Sub(At(a, to), mean)
         IN  Add(SumSq(a, mean, from, to - 1), Mul(dev, dev))

\* The slice taken one element short: from i - period + 2.
SliceFromShort(k, period) == k - period + 2

\* close.slice(i - period + 1, i + 1): its first index (reached only past the
\* guard i >= period - 1, so it is an index of the array).
SliceFrom(k, period) == k - period + 1

BBMean(close, period, k) ==
    Div(SumR(close, SliceFrom(k, period), k), Num(period))

BBSd(close, period, k) ==
    Sqrt(Div(SumSq(close, BBMean(close, period, k), SliceFrom(k, period), k),
             Num(period)))

calcBB(close, period, std) ==
    [upper |-> [k \in DOMAIN close |->
                   IF k - 1 < period - 1 THEN null
                   ELSE Add(BBMean(close, period, k - 1),
                            Mul(std, BBSd(close, period, k - 1)))],
     middle |-> [k \in DOMAIN close |->
                   IF k - 1 < period - 1 THEN null
                   ELSE BBMean(close, period, k - 1)],
     lower |-> [k \in DOMAIN close |->
                   IF k - 1 < period - 1 THEN null
                   ELSE Sub(BBMean(close, period, k - 1),
                            Mul(std, BBSd(close, period, k - 1)))]]

calcATR(h, l, c, period) ==
    LET tr == [k \in DOMAIN c |->
                  IF k - 1 = 0 THEN Sub(h[k], l[k])
                  ELSE MaxR(MaxR(Sub(h[k], l[k]), AbsR(Sub(h[k], c[k - 1]))),
                            AbsR(Sub(l[k], c[k - 1])))]
    IN  rma(tr, period)

sma(values, period) ==
    [k \in DOMAIN values |->
        IF k - 1 < period - 1 THEN null
        ELSE Div(SumR(values, SliceFrom(k - 1, period), k - 1), Num(period))]

\* The period of calcATR in calculateAllIndicators.
AtrPeriod == 14

\* A period parameter as the integer it holds.
IntOf(x) == x[1]

calculateAllIndicators(d, q) ==
    [bb |-> calcBB(d.c, IntOf(q.bbPeriod), q.bbStd),
     rsi |-> calcRSI(d.c, IntOf(q.rsiPeriod)),
     macd |-> calcMACD(d.c, IntOf(q.macdFast), IntOf(q.macdSlow), IntOf(q.macdSignal)),
     atr |-> calcATR(d.h, d.l, d.c, AtrPeriod),
     sma_slow |-> sma(d.c, IntOf(q.trendFilterPeriod)),
     sma_fast |-> sma(d.c, IntOf(q.momentumSMAPeriod))]

----------------------------------------------------------------------------
(* BACKTESTING ENGINE: generateSignals                                     *)

\* The Bollinger, RSI and MACD buy votes of bar k (reversalBuys).
reversalBuys(d, n, q, k) ==
    LET price == At(d.c, k)
        bb == IF q.useBB /\ At(n.bb.upper, k) # null /\ At(n.bb.lower, k) # null
                   /\ Le(price, At(n.bb.lower, k)) THEN 1 ELSE 0
        rs == IF q.useRSI /\ At(n.rsi, k) # null /\ Le(At(n.rsi, k), q.rsiOversold)
                THEN 1 ELSE 0
        mc == IF q.useMACD /\ At(n.macd.MACD, k) # null /\ At(n.macd.signal, k) # null
                   /\ At(n.macd.MACD, k - 1) # null /\ At(n.macd.signal, k - 1) # null
                   /\ Gt(At(n.macd.MACD, k), At(n.macd.signal, k))
                   /\ Le(At(n.macd.MACD, k - 1), At(n.macd.signal, k - 1))
                THEN 1 ELSE 0
    IN  bb + rs + mc

\* The Bollinger, RSI and MACD sell votes of bar k (reversalSells).
reversalSells(d, n, q, k) ==
    LET price == At(d.c, k)
        bb == IF q.useBB /\ At(n.bb.upper, k) # null /\ At(n.bb.lower, k) # null
                   /\ Ge(price, At(n.bb.upper, k)) THEN 1 ELSE 0
        rs == IF q.useRSI /\ At(n.rsi, k) # null /\ Ge(At(n.rsi, k), q.rsiOverbought)
                THEN 1 ELSE 0
        mc == IF q.useMACD /\ At(n.macd.MACD, k) # null /\ At(n.macd.signal, k) # null
                   /\ At(n.macd.MACD, k - 1) # null /\ At(n.macd.signal, k - 1) # null
                   /\ Lt(At(n.macd.MACD, k), At(n.macd.signal, k))
                   /\ Ge(At(n.macd.MACD, k - 1), At(n.macd.signal, k - 1))
                THEN 1 ELSE 0
    IN  bb + rs + mc

\* A variant of isReversalBuy: sell votes do not cancel the buy votes.
isReversalBuyUncancelled(d, n, q, k) ==
    reversalBuys(d, n, q, k) > 0

isReversalBuy(d, n, q, k) ==
    reversalBuys(d, n, q, k) > 0 /\ reversalSells(d, n, q, k) = 0

isReversalSell(d, n, q, k) ==
    reversalSells(d, n, q, k) > 0 /\ reversalBuys(d, n, q, k) = 0

\* A variant of isMomentumBuy: the toggle useMomentumEntry is not consulted.
isMomentumBuyUntoggled(d, n, q, k) ==
    /\ At(n.sma_fast, k) # null
    /\ At(n.rsi, k) # null
    /\ Gt(At(d.c, k), At(n.sma_fast, k))
    /\ Gt(At(n.rsi, k), Num(50))

isMomentumBuy(d, n, q, k) ==
    /\ q.useMomentumEntry
    /\ At(n.sma_fast, k) # null
    /\ At(n.rsi, k) # null
    /\ Gt(At(d.c, k), At(n.sma_fast, k))
    /\ Gt(At(n.rsi, k), Num(50))

\* A variant of totalBuy: the trend filter is not applied.
totalBuyUnfiltered(d, n, q, k) ==
    isReversalBuy(d, n, q, k) \/ isMomentumBuy(d, n, q, k)

\* totalBuy after the trend filter.
totalBuy(d, n, q, k) ==
    /\ isReversalBuy(d, n, q, k) \/ isMomentumBuy(d, n, q, k)
    /\ ~(/\ q.useTrendFilter
         /\ At(n.sma_slow, k) # null
         /\ Lt(At(d.c, k), At(n.sma_slow, k)))

\* A variant of signalsOfBar: the sell is pushed by an if of its own.
signalsOfBarBoth(d, n, q, k) ==
    (IF totalBuy(d, n, q, k)
       THEN <<[type |-> "buy", index |-> k, date |-> At(d.dates, k),
               price |-> At(d.c, k),
               reason |-> IF isMomentumBuy(d, n, q, k) /\ ~isReversalBuy(d, n, q, k)
                            THEN "Momentum Entry" ELSE "Reversal Entry"]>>
       ELSE <<>>)
    \o (IF isReversalSell(d, n, q, k)
          THEN <<[type |-> "sell", index |-> k, date |-> At(d.dates, k),
                  price |-> At(d.c, k), reason |-> "Reversal Sell"]>>
          ELSE <<>>)

\* What the loop body of generateSignals pushes for bar k: one signal or none.
signalsOfBar(d, n, q, k) ==
    IF totalBuy(d, n, q, k)
      THEN <<[type |-> "buy", index |-> k, date |-> At(d.dates, k),
              price |-> At(d.c, k),
              reason |-> IF isMomentumBuy(d, n, q, k) /\ ~isReversalBuy(d, n, q, k)
                           THEN "Momentum Entry" ELSE "Reversal Entry"]>>
    ELSE IF isReversalSell(d, n, q, k)
      THEN <<[type |-> "sell", index |-> k, date |-> At(d.dates, k),
              price |-> At(d.c, k), reason |-> "Reversal Sell"]>>
    ELSE <<>>

\* The signals of bars 1 .. k.
RECURSIVE signalsUpTo(_, _, _, _)
signalsUpTo(d, n, q, k) ==
    IF k < 1 THEN <<>>
    ELSE signalsUpTo(d, n, q, k - 1) \o signalsOfBar(d, n, q, k)

generateSignals(d, n, q) == signalsUpTo(d, n, q, Len(d.dates) - 1)

----------------------------------------------------------------------------
(* BACKTESTING ENGINE: runBacktest                                         *)
(* The stages of the bar loop are operators on the record s of the         *)
(* function's locals {cash, pos, trades, equity, equityDates, peak, maxDD, *)
(* exposureBars}; pos is <<>> (null) or <<[shares, entry]>>.               *)

initialCapital == 10000

slipOf(q) == Div(q.slipBps, Num(10000))

\* A variant of buyIdx: the type of the signal is not looked at.
buyIdxAnyType(sigs) == {sigs[k].index : k \in DOMAIN sigs}

\* buyIdx / sellIdx: the bar indices of the buy and of the sell signals.
buyIdx(sigs) == {sigs[k].index : k \in {j \in DOMAIN sigs : sigs[j].type = "buy"}}
sellIdx(sigs) == {sigs[k].index : k \in {j \in DOMAIN sigs : sigs[j].type = "sell"}}

\* atr[i] ?? (c[i] * 0.02)
atrOr(d, n, k) ==
    IF At(n.atr, k) # null THEN At(n.atr, k) ELSE Mul(At(d.c, k), Rat(2, 100))

\* A variant of closeAt: pos is not cleared by the sale.
closeAtKeepingPos(s, q, date, px, reason) ==
    [s EXCEPT !.cash = Sub(Add(s.cash, Mul(Num(s.pos[1].shares), px)), q.commission),
              !.trades = Append(s.trades,
                    [type |-> "sell", date |-> date, price |-> px,
                     shares |-> s.pos[1].shares, reason |-> reason])]

\* The sale of the open position at price px: cash, ledger, pos = null.
closeAt(s, q, date, px, reason) ==
    [s EXCEPT !.cash = Sub(Add(s.cash, Mul(Num(s.pos[1].shares), px)), q.commission),
              !.trades = Append(s.trades,
                    [type |-> "sell", date |-> date, price |-> px,
                     shares |-> s.pos[1].shares, reason |-> reason]),
              !.pos = <<>>]

\* A variant of signalExit: the sell signal of the bar itself is consumed.
signalExitSameBar(d, n, q, sigs, s, k) ==
    IF s.pos # <<>> /\ k \in sellIdx(sigs)
      THEN closeAt(s, q, At(d.dates, k),
                   Mul(At(d.o, k), Sub(Num(1), slipOf(q))), "Signal Exit")
      ELSE s

\* // Signal exit
signalExit(d, n, q, sigs, s, k) ==
    IF s.pos # <<>> /\ (k - 1) \in sellIdx(sigs)
      THEN closeAt(s, q, At(d.dates, k),
                   Mul(At(d.o, k), Sub(Num(1), slipOf(q))), "Signal Exit")
      ELSE s

takeProfitLvl(d, n, q, s, k) ==
    Add(s.pos[1].entry, Mul(q.takeProfitATR, atrOr(d, n, k)))

\* A variant of takeProfit: the stop is given priority over the target.
takeProfitAfterStop(d, n, q, sigs, s, k) ==
    IF /\ s.pos # <<>> /\ q.useTakeProfit
       /\ Ge(At(d.h, k), takeProfitLvl(d, n, q, s, k))
       /\ ~Le(At(d.l, k), Sub(s.pos[1].entry, Mul(q.stopATR, atrOr(d, n, k))))
      THEN closeAt(s, q, At(d.dates, k),
                   Mul(MaxR(At(d.o, k), takeProfitLvl(d, n, q, s, k)),
                       Sub(Num(1), slipOf(q))),
                   "Take Profit")
      ELSE s

\* // Take Profit
takeProfit(d, n, q, sigs, s, k) ==
    IF s.pos # <<>> /\ q.useTakeProfit /\ Ge(At(d.h, k), takeProfitLvl(d, n, q, s, k))
      THEN closeAt(s, q, At(d.dates, k),
                   Mul(MaxR(At(d.o, k), takeProfitLvl(d, n, q, s, k)),
                       Sub(Num(1), slipOf(q))),
                   "Take Profit")
      ELSE s

stopLvl(d, n, q, s, k) ==
    Sub(s.pos[1].entry, Mul(q.stopATR, atrOr(d, n, k)))

\* A variant of stopLoss: the fill is at the open, wherever the stop level is.
stopLossAtOpen(d, n, q, sigs, s, k) ==
    IF s.pos # <<>> /\ Le(At(d.l, k), stopLvl(d, n, q, s, k))
      THEN closeAt(s, q, At(d.dates, k),
                   Mul(At(d.o, k), Sub(Num(1), slipOf(q))),
                   "Stop Loss")
      ELSE s

\* // Stop loss
stopLoss(d, n, q, sigs, s, k) ==
    IF s.pos # <<>> /\ Le(At(d.l, k), stopLvl(d, n, q, s, k))
      THEN closeAt(s, q, At(d.dates, k),
                   Mul(MinR(At(d.o, k), stopLvl(d, n, q, s, k)),
                       Sub(Num(1), slipOf(q))),
                   "Stop Loss")
      ELSE s

entryPx(d, q, k) == Mul(At(d.o, k), Add(Num(1), slipOf(q)))

\* A variant of entryShares: the quotient is rounded to the nearest whole
\* number instead of down.
entrySharesRounded(d, n, q, s, k) ==
    LET stopDist == MaxR(Rat(1, 100), Mul(q.stopATR, atrOr(d, n, k)))
        riskDollars == Mul(s.cash, Div(q.riskPct, Num(100)))
    IN  Floor(Add(Div(riskDollars, stopDist), Rat(1, 2)))

\* shares = Math.floor(riskDollars / stopDist)
entryShares(d, n, q, s, k) ==
    LET stopDist == MaxR(Rat(1, 100), Mul(q.stopATR, atrOr(d, n, k)))
        riskDollars == Mul(s.cash, Div(q.riskPct, Num(100)))
    IN  Floor(Div(riskDollars, stopDist))

\* A variant of signalEntry: the test for an open position is dropped.
signalEntryWhileOpen(d, n, q, sigs, s, k) ==
    IF (k - 1) \in buyIdx(sigs)
      THEN LET px == entryPx(d, q, k)
               shares == entryShares(d, n, q, s, k)
               cost == Add(Mul(Num(shares), px), q.commission)
           IN  IF shares > 0 /\ Ge(s.cash, cost)
                 THEN [s EXCEPT !.cash = Sub(s.cash, cost),
                                !.pos = <<[shares |-> shares, entry |-> px]>>,
                                !.trades = Append(s.trades,
                                    [type |-> "buy", date |-> At(d.dates, k),
                                     price |-> px, shares |-> shares,
                                     reason |-> "Signal Entry"])]
                 ELSE s
      ELSE s

\* A variant of signalEntry: the position is bought whether or not cash
\* covers it.
signalEntryOnCredit(d, n, q, sigs, s, k) ==
    IF s.pos = <<>> /\ (k - 1) \in buyIdx(sigs)
      THEN LET px == entryPx(d, q, k)
               shares == entryShares(d, n, q, s, k)
               cost == Add(Mul(Num(shares), px), q.commission)
           IN  IF shares > 0
                 THEN [s EXCEPT !.cash = Sub(s.cash, cost),
                                !.pos = <<[shares |-> shares, entry |-> px]>>,
                                !.trades = Append(s.trades,
                                    [type |-> "buy", date |-> At(d.dates, k),
                                     price |-> px, shares |-> shares,
                                     reason |-> "Signal Entry"])]
                 ELSE s
      ELSE s

\* // Signal entry
signalEntry(d, n, q, sigs, s, k) ==
    IF s.pos = <<>> /\ (k - 1) \in buyIdx(sigs)
      THEN LET px == entryPx(d, q, k)
               shares == entryShares(d, n, q, s, k)
               cost == Add(Mul(Num(shares), px), q.commission)
           IN  IF shares > 0 /\ Ge(s.cash, cost)
                 THEN [s EXCEPT !.cash = Sub(s.cash, cost),
                                !.pos = <<[shares |-> shares, entry |-> px]>>,
                                !.trades = Append(s.trades,
                                    [type |-> "buy", date |-> At(d.dates, k),
                                     price |-> px, shares |-> shares,
                                     reason |-> "Signal Entry"])]
                 ELSE s
      ELSE s

\* eq = cash + (pos ? pos.shares * c[i] : 0)
markToMarket(d, s, k) ==
    IF s.pos # <<>> THEN Add(s.cash, Mul(Num(s.pos[1].shares), At(d.c, k)))
    ELSE s.cash

\* A variant of markBar: a bar is marked only while a position is held.
markBarWhenHolding(d, n, q, sigs, s, k) ==
    LET eq == markToMarket(d, s, k)
        pk == IF Gt(eq, s.peak) THEN eq ELSE s.peak
    IN  IF s.pos = <<>> THEN s
        ELSE [s EXCEPT !.exposureBars = @ + 1,
                       !.equity = Append(@, eq),
                       !.equityDates = Append(@, At(d.dates, k)),
                       !.peak = pk,
                       !.maxDD = MaxR(@, Mul(Div(Sub(pk, eq), pk), Num(100)))]

\* A variant of markBar: maxDD is the drawdown of the bar, not the largest.
markBarLastDrawdown(d, n, q, sigs, s, k) ==
    LET eq == markToMarket(d, s, k)
        pk == IF Gt(eq, s.peak) THEN eq ELSE s.peak
    IN  [s EXCEPT !.exposureBars = IF s.pos # <<>> THEN @ + 1 ELSE @,
                  !.equity = Append(@, eq),
                  !.equityDates = Append(@, At(d.dates, k)),
                  !.peak = pk,
                  !.maxDD = Mul(Div(Sub(pk, eq), pk), Num(100))]

\* exposureBars, equity, equityDates, peak and maxDD at the end of bar k.
markBar(d, n, q, sigs, s, k) ==
    LET eq == markToMarket(d, s, k)
        pk == IF Gt(eq, s.peak) THEN eq ELSE s.peak
    IN  [s EXCEPT !.exposureBars = IF s.pos # <<>> THEN @ + 1 ELSE @,
                  !.equity = Append(@, eq),
                  !.equityDates = Append(@, At(d.dates, k)),
                  !.peak = pk,
                  !.maxDD = MaxR(@, Mul(Div(Sub(pk, eq), pk), Num(100)))]

\* F(x) with x evaluated first, as a statement sequence evaluates it.
Then(x, F(_)) == CHOOSE r \in {F(v) : v \in {x}} : TRUE

\* The body of the bar loop: the rules in the order of the code.
barStep(d, n, q, sigs, s, k) ==
    Then(signalExit(d, n, q, sigs, s, k), LAMBDA s1 :
    Then(takeProfit(d, n, q, sigs, s1, k), LAMBDA s2 :
    Then(stopLoss(d, n, q, sigs, s2, k), LAMBDA s3 :
    Then(signalEntry(d, n, q, sigs, s3, k), LAMBDA s4 :
         markBar(d, n, q, sigs, s4, k)))))

\* The locals before the loop.
initialLocals ==
    [cash |-> Num(initialCapital), pos |-> <<>>, trades |-> <<>>,
     equity |-> <<>>, equityDates |-> <<>>,
     peak |-> Num(initialCapital), maxDD |-> Num(0), exposureBars |-> 0]

\* The locals after bars 1 .. k.
RECURSIVE barsUpTo(_, _, _, _, _)
barsUpTo(d, n, q, sigs, k) ==
    IF k < 1 THEN initialLocals
    ELSE Then(barsUpTo(d, n, q, sigs, k - 1),
              LAMBDA prev : barStep(d, n, q, sigs, prev, k))

\* A variant of finalEquityOf: the unwind pays the commission like any sell.
finalEquityWithCommission(d, q, s) ==
    IF s.pos # <<>>
      THEN Sub(Add(s.cash, Mul(Num(s.pos[1].shares),
                               Mul(At(d.c, Len(d.c) - 1), Sub(Num(1), slipOf(q))))),
               q.commission)
      ELSE s.cash

\* finalEquity: cash after the terminal unwind of an open position.
finalEquityOf(d, q, s) ==
    IF s.pos # <<>>
      THEN Add(s.cash, Mul(Num(s.pos[1].shares),
                           Mul(At(d.c, Len(d.c) - 1), Sub(Num(1), slipOf(q)))))
      ELSE s.cash

\* // Calculate metrics: the round trips, each sell with the buy before it.
RECURSIVE pairedFrom(_, _, _, _)
pairedFrom(ts, k, lastBuy, out) ==
    IF k > Len(ts) THEN out
    ELSE IF ts[k].type = "buy" THEN pairedFrom(ts, k + 1, <<ts[k]>>, out)
    ELSE IF ts[k].type = "sell" /\ lastBuy # <<>>
      THEN pairedFrom(ts, k + 1, <<>>, Append(out, [buy |-> lastBuy[1], sell |-> ts[k]]))
    ELSE pairedFrom(ts, k + 1, lastBuy, out)

paired(ts) == pairedFrom(ts, 1, <<>>, <<>>)

rets(ts) ==
    [k \in DOMAIN paired(ts) |->
        Div(Sub(paired(ts)[k].sell.price, paired(ts)[k].buy.price),
            paired(ts)[k].buy.price)]

\* a.reduce((x, y) => x + y, 0) over the entries of a chosen by keep
RECURSIVE sumWhere(_, _, _)
sumWhere(a, keep, k) ==
    IF k = 0 THEN Num(0)
    ELSE IF k \in keep THEN Add(sumWhere(a, keep, k - 1), a[k])
    ELSE sumWhere(a, keep, k - 1)

\* The longest run of round trips with a return <= 0.
RECURSIVE consecFrom(_, _, _, _)
consecFrom(r, k, run, longest) ==
    IF k > Len(r) THEN longest
    ELSE IF Le(r[k], Num(0))
      THEN consecFrom(r, k + 1, run + 1, IF run + 1 > longest THEN run + 1 ELSE longest)
    ELSE consecFrom(r, k + 1, 0, longest)

\* Number.POSITIVE_INFINITY (never an operand of the arithmetic above)
Infinity == <<1, 0>>

\* The metrics of the returned BacktestResult that are rational functions of
\* the run.  sharpeRatio, sortinoRatio, cagr and calmarRatio (Math.sqrt and
\* Math.pow over calendar time) are left out.
metricsOf(d, s, finalEquity) ==
    LET ps == paired(s.trades)
        r == rets(s.trades)
        wins == {k \in DOMAIN r : Gt(r[k], Num(0))}
        losses == {k \in DOMAIN r : Le(r[k], Num(0))}
        pnl == [k \in DOMAIN ps |->
                   Mul(AbsR(Sub(ps[k].sell.price, ps[k].buy.price)),
                       Num(ps[k].buy.shares))]
        grossProfit == sumWhere(pnl, {k \in DOMAIN ps :
                            Gt(ps[k].sell.price, ps[k].buy.price)}, Len(ps))
        grossLoss == sumWhere(pnl, {k \in DOMAIN ps :
                            Le(ps[k].sell.price, ps[k].buy.price)}, Len(ps))
    IN  [finalEquity |-> finalEquity,
         totalReturn |-> Mul(Div(Sub(finalEquity, Num(initialCapital)),
                                 Num(initialCapital)), Num(100)),
         winRate |-> IF Len(ps) > 0 THEN Mul(Rat(Cardinality(wins), Len(ps)), Num(100))
                     ELSE Num(0),
         profitFactor |-> IF Gt(grossLoss, Num(0)) THEN Div(grossProfit, grossLoss)
                          ELSE Infinity,
         avgWin |-> IF wins # {}
                      THEN Mul(Div(sumWhere(r, wins, Len(r)), Num(Cardinality(wins))),
                               Num(100))
                      ELSE Num(0),
         avgLoss |-> IF losses # {}
                       THEN Mul(AbsR(Div(sumWhere(r, losses, Len(r)),
                                         Num(Cardinality(losses)))), Num(100))
                       ELSE Num(0),
         maxDrawdown |-> s.maxDD,
         numTrades |-> Len(ps),
         timeInMarketPct |-> Mul(Rat(s.exposureBars, Len(d.c)), Num(100)),
         maxConsecLosses |-> consecFrom(r, 1, 0, 0)]

\* The returned BacktestResult.
backtestResult(d, sigs, s, finalEquity) ==
    [trades |-> s.trades, signals |-> sigs, equity |-> s.equity,
     equityDates |-> s.equityDates, metrics |-> metricsOf(d, s, finalEquity)]

\* runBacktest as a function of its arguments.  timeframe only selects the
\* annualisation factor of the ratios that are left out.
runBacktest(d, n, q, timeframe) ==
    Then(generateSignals(d, n, q), LAMBDA sigs :
    Then(barsUpTo(d, n, q, sigs, Len(d.c) - 1), LAMBDA s :
         backtestResult(d, sigs, s, finalEquityOf(d, q, s))))

----------------------------------------------------------------------------
(* Inputs.                                                                 *)

\* The longest series of the backtest specification.
MaxBars == 4

\* The bars a series is drawn from: flat, rally, sell-off, wide range.
BarShapes ==
    <<[o |-> 100, h |-> 101, l |-> 99, c |-> 100],
      [o |-> 100, h |-> 112, l |-> 100, c |-> 110],
      [o |-> 100, h |-> 100, l |-> 88, c |-> 90],
      [o |-> 100, h |-> 115, l |-> 85, c |-> 100]>>

\* The StockData of a sequence of bars; dates are day numbers, ascending.
seriesOf(bars) ==
    [dates |-> [k \in DOMAIN bars |-> 20240100 + k],
     o |-> [k \in DOMAIN bars |-> Num(bars[k].o)],
     h |-> [k \in DOMAIN bars |-> Num(bars[k].h)],
     l |-> [k \in DOMAIN bars |-> Num(bars[k].l)],
     c |-> [k \in DOMAIN bars |-> Num(bars[k].c)]]

SeriesUpTo(n) ==
    UNION {{seriesOf([k \in 1 .. m |-> BarShapes[f[k]]]) :
               f \in [1 .. m -> DOMAIN BarShapes]} : m \in 1 .. n}

\* A StrategyParameters with every rule off.
defaultParams ==
    [useBB |-> FALSE, useRSI |-> FALSE, useMACD |-> FALSE,
     bbPeriod |-> Num(2), bbStd |-> Num(1),
     rsiPeriod |-> Num(1), rsiOverbought |-> Num(70), rsiOversold |-> Num(30),
     macdFast |-> Num(1), macdSlow |-> Num(2), macdSignal |-> Num(2),
     riskPct |-> Num(1), stopATR |-> Num(2),
     commission |-> Num(0), slipBps |-> Num(0),
     useTrendFilter |-> FALSE, trendFilterPeriod |-> Num(2),
     useTakeProfit |-> FALSE, takeProfitATR |-> Num(3),
     useMomentumEntry |-> FALSE, momentumSMAPeriod |-> Num(2)]

\* The rule selections: none, each reversal rule alone, RSI with momentum
\* entries, and every rule under the trend filter.
RuleSets ==
    [none |-> [useBB |-> FALSE, useRSI |-> FALSE, useMACD |-> FALSE, mom |-> FALSE, trend |-> FALSE],
     trend |-> [useBB |-> FALSE, useRSI |-> FALSE, useMACD |-> FALSE, mom |-> FALSE, trend |-> TRUE],
     bb |-> [useBB |-> TRUE, useRSI |-> FALSE, useMACD |-> FALSE, mom |-> FALSE, trend |-> FALSE],
     rsi |-> [useBB |-> FALSE, useRSI |-> TRUE, useMACD |-> FALSE, mom |-> FALSE, trend |-> FALSE],
     macd |-> [useBB |-> FALSE, useRSI |-> FALSE, useMACD |-> TRUE, mom |-> FALSE, trend |-> FALSE],
     momentum |-> [useBB |-> FALSE, useRSI |-> TRUE, useMACD |-> FALSE, mom |-> TRUE, trend |-> FALSE],
     all |-> [useBB |-> TRUE, useRSI |-> TRUE, useMACD |-> TRUE, mom |-> TRUE, trend |-> TRUE]]

\* The execution settings: no costs; take-profit with slippage and commission;
\* take-profit with a risk budget that cash cannot cover.
Executions ==
    [plain |-> [tp |-> FALSE, slipBps |-> 0, commission |-> 0, riskPct |-> 1],
     costly |-> [tp |-> TRUE, slipBps |-> 100, commission |-> 5, riskPct |-> 1],
     tight |-> [tp |-> TRUE, slipBps |-> 0, commission |-> 0, riskPct |-> 10]]

\* The configurations of the backtest specification.
Selections ==
    {<<"none", "plain">>, <<"trend", "costly">>,
     <<"bb", "plain">>, <<"bb", "costly">>,
     <<"rsi", "plain">>, <<"rsi", "costly">>, <<"rsi", "tight">>,
     <<"macd", "costly">>,
     <<"momentum", "costly">>,
     <<"all", "plain">>}

paramsOf(r, x) ==
    [defaultParams EXCEPT !.useBB = r.useBB, !.useRSI = r.useRSI, !.useMACD = r.useMACD,
                          !.useMomentumEntry = r.mom, !.useTrendFilter = r.trend,
                          !.useTakeProfit = x.tp, !.slipBps = Num(x.slipBps),
                          !.commission = Num(x.commission), !.riskPct = Num(x.riskPct)]

\* RSI votes and momentum entries under a trend filter slower than the
\* momentum average.
trendGuarded ==
    [paramsOf(RuleSets.momentum, Executions.plain)
        EXCEPT !.useTrendFilter = TRUE, !.trendFilterPeriod = Num(MaxBars)]

\* RSI votes under slippage and commission with a stop so close to the entry
\* that the next open is already below it, and a risk budget to match.
narrowStop ==
    [paramsOf(RuleSets.rsi, Executions.costly)
        EXCEPT !.stopATR = Rat(1, 10), !.riskPct = Rat(1, 10)]

ParamSets ==
    {paramsOf(RuleSets[x[1]], Executions[x[2]]) : x \in Selections}
        \cup {trendGuarded, narrowStop}

----------------------------------------------------------------------------
(* runBacktest, one step per rule of the bar loop.                         *)

N == Len(data.c)

\* The locals of runBacktest as the record the stage operators work on.
locals ==
    [cash |-> cash, pos |-> pos, trades |-> trades, equity |-> equity,
     equityDates |-> equityDates, peak |-> peak, maxDD |-> maxDD,
     exposureBars |-> exposureBars]

setLocals(s) ==
    /\ cash' = s.cash
    /\ pos' = s.pos
    /\ trades' = s.trades
    /\ equity' = s.equity
    /\ equityDates' = s.equityDates
    /\ peak' = s.peak
    /\ maxDD' = s.maxDD
    /\ exposureBars' = s.exposureBars

\* parseRangeSpec's variables while it is not called.
rangeIdle ==
    /\ rsSpec = <<>>
    /\ rsMin = <<>> /\ rsMax = <<>> /\ rsStep = <<>> /\ rsV = <<>>
    /\ rsOut = <<>>
    /\ rsPc = "idle"

\* A single call of runBacktest.
oneCall ==
    /\ calls = 1
    /\ firstResult = <<>>

\* The optimizer's variables while no optimization runs.
optIdle ==
    /\ baseParams = defaultParams
    /\ p1Key = "select" /\ p1Range = <<>>
    /\ p2Key = "select" /\ p2Range = <<>>
    /\ metric = "sharpe"
    /\ grid = <<>> /\ best = <<>> /\ row = 0 /\ col = 0
    /\ opc = "idle" /\ optResult = <<>>
    /\ currentParams = <<>>

\* A call runBacktest(data, calculateAllIndicators(data, p), p, timeframe), as
\* App.tsx makes it, with the locals as declared.
Init ==
    /\ data \in SeriesUpTo(MaxBars)
    /\ p \in ParamSets
    /\ ind = calculateAllIndicators(data, p)
    /\ signals = <<>>
    /\ cash = initialLocals.cash
    /\ pos = initialLocals.pos
    /\ trades = initialLocals.trades
    /\ equity = initialLocals.equity
    /\ equityDates = initialLocals.equityDates
    /\ peak = initialLocals.peak
    /\ maxDD = initialLocals.maxDD
    /\ exposureBars = initialLocals.exposureBars
    /\ i = 1
    /\ pc = "signals"
    /\ result = <<>>
    /\ optIdle
    /\ rangeIdle
    /\ oneCall

\* const signals = generateSignals(data, ind, p), and the loop's first test.
GenerateSignals ==
    /\ pc = "signals"
    /\ signals' = generateSignals(data, ind, p)
    /\ pc' = IF 1 < N THEN "signalExit" ELSE "unwind"
    /\ UNCHANGED <<data, ind, p, cash, pos, trades, equity, equityDates, peak,
                   maxDD, exposureBars, i, result, optVars, rangeVars, callVars>>

SignalExit ==
    /\ pc = "signalExit"
    /\ setLocals(signalExit(data, ind, p, signals, locals, i))
    /\ pc' = "takeProfit"
    /\ UNCHANGED <<data, ind, p, signals, i, result, optVars, rangeVars, callVars>>

TakeProfit ==
    /\ pc = "takeProfit"
    /\ setLocals(takeProfit(data, ind, p, signals, locals, i))
    /\ pc' = "stopLoss"
    /\ UNCHANGED <<data, ind, p, signals, i, result, optVars, rangeVars, callVars>>

StopLoss ==
    /\ pc = "stopLoss"
    /\ setLocals(stopLoss(data, ind, p, signals, locals, i))
    /\ pc' = "signalEntry"
    /\ UNCHANGED <<data, ind, p, signals, i, result, optVars, rangeVars, callVars>>

\* A variant of SignalEntry: the stop rule is evaluated once more after the
\* entry, against the position just opened.
SignalEntryThenStop ==
    /\ pc = "signalEntry"
    /\ setLocals(stopLoss(data, ind, p, signals,
                          signalEntry(data, ind, p, signals, locals, i), i))
    /\ pc' = "mark"
    /\ UNCHANGED <<data, ind, p, signals, i, result, optVars, rangeVars, callVars>>

\* // Signal entry: the last rule of the bar, after the three exits.
SignalEntry ==
    /\ pc = "signalEntry"
    /\ setLocals(signalEntry(data, ind, p, signals, locals, i))
    /\ pc' = "mark"
    /\ UNCHANGED <<data, ind, p, signals, i, result, optVars, rangeVars, callVars>>

\* The end of the loop body and the loop's i++ and test.
MarkBar ==
    /\ pc = "mark"
    /\ setLocals(markBar(data, ind, p, signals, locals, i))
    /\ i' = i + 1
    /\ pc' = IF i + 1 < N THEN "signalExit" ELSE "unwind"
    /\ UNCHANGED <<data, ind, p, signals, result, optVars, rangeVars, callVars>>

\* A variant of Unwind: the unwind is recorded in the ledger as a sell.
UnwindRecorded ==
    /\ pc = "unwind"
    /\ cash' = finalEquityOf(data, p, locals)
    /\ trades' = IF pos # <<>>
                   THEN Append(trades,
                               [type |-> "sell", date |-> At(data.dates, N - 1),
                                price |-> Mul(At(data.c, N - 1), Sub(Num(1), slipOf(p))),
                                shares |-> pos[1].shares, reason |-> "End of Data"])
                   ELSE trades
    /\ pc' = "metrics"
    /\ UNCHANGED <<data, ind, p, signals, pos, equity, equityDates, peak,
                   maxDD, exposureBars, i, result, optVars, rangeVars, callVars>>

\* if (pos) cash += pos.shares * c[N - 1] * (1 - slip): pos itself is kept.
Unwind ==
    /\ pc = "unwind"
    /\ cash' = finalEquityOf(data, p, locals)
    /\ pc' = "metrics"
    /\ UNCHANGED <<data, ind, p, signals, pos, trades, equity, equityDates, peak,
                   maxDD, exposureBars, i, result, optVars, rangeVars, callVars>>

Return ==
    /\ pc = "metrics"
    /\ result' = backtestResult(data, signals, locals, cash)
    /\ pc' = "done"
    /\ UNCHANGED <<data, ind, p, signals, cash, pos, trades, equity, equityDates,
                   peak, maxDD, exposureBars, i, optVars, rangeVars, callVars>>

Next ==
    \/ GenerateSignals
    \/ SignalExit
    \/ TakeProfit
    \/ StopLoss
    \/ SignalEntry
    \/ MarkBar
    \/ Unwind
    \/ Return

Spec == Init /\ [][Next]_vars

----------------------------------------------------------------------------
(* Properties of runBacktest.                                              *)

\* The bar (0-based index) whose date is dt.
barOf(dt) == CHOOSE k \in Idx(Len(data.dates)) : At(data.dates, k) = dt

\* What the ledger says of the account at the end of bar b: the cash left by
\* the trades dated up to bar b, and the shares of a buy not yet sold.
ledgerUpTo(b) == SelectSeq(trades, LAMBDA t : barOf(t.date) <= b)

RECURSIVE ledgerCash(_, _)
ledgerCash(ts, k) ==
    IF k = 0 THEN Num(initialCapital)
    ELSE LET amount == Mul(Num(ts[k].shares), ts[k].price)
         IN  IF ts[k].type = "buy"
               THEN Sub(Sub(ledgerCash(ts, k - 1), amount), p.commission)
               ELSE Sub(Add(ledgerCash(ts, k - 1), amount), p.commission)

ledgerShares(ts) ==
    IF ts # <<>> /\ ts[Len(ts)].type = "buy" THEN ts[Len(ts)].shares ELSE 0

buys(ts) == {k \in DOMAIN ts : ts[k].type = "buy"}
sells(ts) == {k \in DOMAIN ts : ts[k].type = "sell"}

\* C1: throughout a run of runBacktest the ledger holds at most one buy that
\* is not yet sold, pos is set exactly when there is one (so a buy is recorded
\* only when no position is open), and the shares of an open position are the
\* positive whole number its buy recorded.
C1_SinglePosition ==
    /\ Cardinality(buys(trades)) - Cardinality(sells(trades)) \in {0, 1}
    /\ Len(pos) = Cardinality(buys(trades)) - Cardinality(sells(trades))
    /\ pos # <<>> =>
          /\ pos[1].shares \in Nat
          /\ pos[1].shares > 0
          /\ trades[Len(trades)].type = "buy"
          /\ trades[Len(trades)].shares = pos[1].shares
    /\ \A k \in buys(trades) : k = 1 \/ trades[k - 1].type = "sell"

\* C1 witness: a position opened on an earlier bar is still held past the
\* entry rule of a bar whose previous bar emitted a buy signal.
C1_Witness ==
    /\ pc = "mark"
    /\ pos # <<>>
    /\ (i - 1) \in buyIdx(signals)
    /\ barOf(trades[Len(trades)].date) < i

\* C2: every buy in the ledger is dated on a bar b >= 1 whose previous bar
\* b - 1 carries a buy signal, at the price open[b] * (1 + slip); every
\* 'Signal Exit' sell is dated on a bar b whose previous bar carries a sell
\* signal, at open[b] * (1 - slip).  The signal bar is never the trade's bar.
C2_NextBarExecution ==
    \A k \in DOMAIN trades :
        LET b == barOf(trades[k].date)
            slip == Div(p.slipBps, Num(10000))
        IN  /\ trades[k].type = "buy" =>
                 /\ b >= 1
                 /\ \E j \in DOMAIN signals :
                        signals[j].type = "buy" /\ signals[j].index = b - 1
                 /\ trades[k].price = Mul(At(data.o, b), Add(Num(1), slip))
            /\ trades[k].reason = "Signal Exit" =>
                 /\ b >= 1
                 /\ \E j \in DOMAIN signals :
                        signals[j].type = "sell" /\ signals[j].index = b - 1
                 /\ trades[k].price = Mul(At(data.o, b), Sub(Num(1), slip))

\* C2 witness: a finished run whose ledger holds a buy and a signal exit, the
\* buy on a bar that emitted no buy signal itself.
C2_Witness ==
    /\ pc = "done"
    /\ p.slipBps # Num(0)
    /\ \E j, k \in DOMAIN trades :
          /\ trades[j].type = "buy"
          /\ barOf(trades[j].date) \notin buyIdx(signals)
          /\ trades[k].reason = "Signal Exit"

\* The take-profit and stop levels on bar b of the position bought by ledger
\* entry j.
targetOf(j, b) ==
    Add(trades[j].price, Mul(p.takeProfitATR, atrOr(data, ind, b)))
stopOf(j, b) ==
    Sub(trades[j].price, Mul(p.stopATR, atrOr(data, ind, b)))

\* The position bought by ledger entry j is still held on bar b once the
\* signal exit of that bar has been decided.
heldPastSignalExit(j, b) ==
    /\ trades[j].type = "buy"
    /\ barOf(trades[j].date) < b
    /\ \/ j = Len(trades)
       \/ barOf(trades[j + 1].date) > b
       \/ barOf(trades[j + 1].date) = b /\ trades[j + 1].reason # "Signal Exit"

\* The exit rules of bar b have all been evaluated.
exitsDone(b) == b < i \/ (b = i /\ pc \in {"signalEntry", "mark"})

\* C3: the ledger holds at most one sell per bar (so a signal exit leaves
\* nothing for take-profit and stop-loss on its bar); a position held past the
\* signal exit of a bar on which take-profit is enabled and both high >= target
\* and low <= stop hold is sold on that bar with reason 'Take Profit'; and a
\* sell dated on the bar of a buy comes before that buy in the ledger.
C3_ExitOrder ==
    /\ \A j, k \in sells(trades) :
          j < k => barOf(trades[j].date) < barOf(trades[k].date)
    /\ \A j \in buys(trades) : \A b \in 1 .. (N - 1) :
          ( /\ heldPastSignalExit(j, b)
            /\ exitsDone(b)
            /\ p.useTakeProfit
            /\ Ge(At(data.h, b), targetOf(j, b))
            /\ Le(At(data.l, b), stopOf(j, b)) )
          => /\ j < Len(trades)
             /\ barOf(trades[j + 1].date) = b
             /\ trades[j + 1].reason = "Take Profit"
    /\ \A j \in buys(trades) : \A k \in sells(trades) :
          barOf(trades[j].date) = barOf(trades[k].date) => k < j

\* C3 witness: a bar on which target and stop are both reached, the position
\* is sold with reason 'Take Profit' and a new one is bought.
C3_Witness ==
    \E k \in sells(trades) :
        /\ trades[k].reason = "Take Profit"
        /\ Le(At(data.l, barOf(trades[k].date)), stopOf(k - 1, barOf(trades[k].date)))
        /\ k + 1 \in buys(trades)
        /\ trades[k + 1].date = trades[k].date

\* C4: the signals of generateSignals have strictly ascending bar indices (at
\* most one per bar, never a buy and a sell for one bar), none is for bar 0,
\* and, once generateSignals has returned, a bar on which a buy passes the
\* trend filter and a reversal sell fires too carries the buy and no sell.
C4_OneSignalPerBar ==
    /\ \A j, k \in DOMAIN signals : j < k => signals[j].index < signals[k].index
    /\ \A j \in DOMAIN signals : signals[j].index >= 1 /\ signals[j].index < N
    /\ buyIdx(signals) \cap sellIdx(signals) = {}
    /\ \A b \in 1 .. (N - 1) :
          (/\ pc # "signals"
           /\ totalBuy(data, ind, p, b)
           /\ isReversalSell(data, ind, p, b))
          => b \in buyIdx(signals) /\ b \notin sellIdx(signals)

\* C4 witness: a bar with a momentum buy and a reversal sell, signalled as a
\* buy, in a series that also has a sell signal.
C4_Witness ==
    /\ pc # "signals"
    /\ \E b \in 1 .. (N - 1) :
          /\ isMomentumBuy(data, ind, p, b)
          /\ isReversalSell(data, ind, p, b)
          /\ b \in buyIdx(signals)
    /\ sellIdx(signals) # {}

\* C5: equity and equityDates hold one entry per bar of the loop so far (N - 1
\* in the returned result, for N >= 1), entry k is dated bar k, and it is the
\* cash the ledger leaves at the end of bar k plus the shares then held at the
\* close of bar k.
C5_EquityCurve ==
    /\ Len(equity) = i - 1
    /\ Len(equityDates) = i - 1
    /\ \A k \in DOMAIN equity :
          /\ equityDates[k] = At(data.dates, k)
          /\ equity[k] =
                Add(ledgerCash(ledgerUpTo(k), Len(ledgerUpTo(k))),
                    Mul(Num(ledgerShares(ledgerUpTo(k))), At(data.c, k)))
    /\ pc = "done" =>
          /\ Len(result.equity) = N - 1
          /\ Len(result.equityDates) = N - 1
          /\ result.equity = equity

\* C5 witness: a returned curve over the longest series with a bar marked
\* while a position is held and a later bar marked flat.
C5_Witness ==
    /\ pc = "done"
    /\ N >= 4
    /\ \E j, k \in DOMAIN result.equity :
          /\ j < k
          /\ ledgerShares(ledgerUpTo(j)) > 0
          /\ ledgerShares(ledgerUpTo(k)) = 0

\* C6: the returned finalEquity is the cash the ledger leaves, plus, when a
\* position is open after the last bar, shares * close[N - 1] * (1 - slip)
\* with no commission taken off.
C6_TerminalUnwind ==
    pc = "done" =>
        result.metrics.finalEquity =
            Add(ledgerCash(trades, Len(trades)),
                Mul(Num(ledgerShares(trades)),
                    Mul(At(data.c, N - 1),
                        Sub(Num(1), Div(p.slipBps, Num(10000))))))

\* C6 witness: a run that ends with an open position under a commission and
\* a slippage that are not zero.
C6_Witness ==
    /\ pc = "done"
    /\ pos # <<>>
    /\ p.commission # Num(0)
    /\ p.slipBps # Num(0)

----------------------------------------------------------------------------
(* OPTIMIZATION ENGINE: runOptimization                                    *)

paramKeyMap ==
    [rsi_period |-> "rsiPeriod",
     bb_std |-> "bbStd",
     stop_loss_atr |-> "stopATR",
     rsi_oversold |-> "rsiOversold",
     risk_per_trade |-> "riskPct",
     bb_period |-> "bbPeriod",
     rsi_overbought |-> "rsiOverbought",
     macd_fast |-> "macdFast",
     macd_slow |-> "macdSlow",
     macd_signal |-> "macdSignal"]

\* paramKeyMap[key]; "" stands for undefined.
mappedKey(key) == IF key \in DOMAIN paramKeyMap THEN paramKeyMap[key] ELSE ""

effectiveP2Range(k2, r2) == IF k2 = "select" \/ r2 = <<>> THEN <<Num(0)>> ELSE r2

\* effectiveP2Range.map(() => p1Range.map(() => null))
emptyGrid(r1, eff) == [r \in DOMAIN eff |-> [c \in DOMAIN r1 |-> null]]

\* currentParams of the cell with values v1 and v2.
currentParamsOf(base, k1, v1, k2, v2) ==
    LET one == IF mappedKey(k1) # "" THEN [base EXCEPT ![mappedKey(k1)] = v1] ELSE base
    IN  IF mappedKey(k2) # "" /\ k2 # "select"
          THEN [one EXCEPT ![mappedKey(k2)] = v2]
          ELSE one

\* bestParams of the cell with values v1 and v2: the swept fields alone.
bestParamsOf(k1, v1, k2, v2) ==
    LET one == IF mappedKey(k1) # "" THEN (mappedKey(k1) :> v1) ELSE <<>>
    IN  IF mappedKey(k2) # "" /\ k2 # "select"
          THEN (mappedKey(k2) :> v2) @@ one
          ELSE one

\* -Infinity
NegInfinity == <<-1, 0>>

isFinite(x) == x[2] # 0

\* a > b for scores, of which -Infinity is one.
scoreGt(a, b) ==
    IF a = NegInfinity THEN FALSE
    ELSE IF b = NegInfinity THEN TRUE
    ELSE Gt(a, b)

\* The switch on metric, for the objectives that metricsOf computes.
scoreOf(m, bt) ==
    CASE m = "win_rate" -> bt.metrics.winRate
      [] m = "max_drawdown" -> Neg(bt.metrics.maxDrawdown)

\* if (bt.metrics.numTrades < 5) score = -Infinity
MinTrades == 5

\* The penalty with the threshold one trade lower.
penalisedBelowFour(score, bt) ==
    IF bt.metrics.numTrades < MinTrades - 1 THEN NegInfinity ELSE score

penalised(score, bt) ==
    IF bt.metrics.numTrades < MinTrades THEN NegInfinity ELSE score

\* calculateAllIndicators and runBacktest on the cell's currentParams.
backtestOf(d, cp) == runBacktest(d, calculateAllIndicators(d, cp), cp, "daily")

\* The score of the cell's backtest, and what best would take from the cell.
scoredCell(m, bt, params) ==
    [bt |-> bt, score |-> penalised(scoreOf(m, bt), bt), params |-> params]

\* The cell (r, c) with the loop indices exchanged in the two range reads.
evalCellTransposed(d, base, k1, r1, k2, eff, m, r, c) ==
    scoredCell(m,
               backtestOf(d, currentParamsOf(base, k1, At(r1, r), k2, At(eff, c))),
               bestParamsOf(k1, At(r1, r), k2, At(eff, c)))

\* The body of the inner loop up to the score: the cell (r, c), 0-based.
evalCell(d, base, k1, r1, k2, eff, m, r, c) ==
    scoredCell(m,
               backtestOf(d, currentParamsOf(base, k1, At(r1, c), k2, At(eff, r))),
               bestParamsOf(k1, At(r1, c), k2, At(eff, r)))

\* The update of best with >= in place of >.
betterOrEqualOf(cell, b) ==
    IF cell.score = b.score \/ scoreGt(cell.score, b.score)
      THEN [score |-> cell.score, params |-> cell.params, bt |-> cell.bt]
      ELSE b

\* if (score > best.score) best = {score, params: bestParams, bt}
betterOf(cell, b) ==
    IF scoreGt(cell.score, b.score)
      THEN [score |-> cell.score, params |-> cell.params, bt |-> cell.bt]
      ELSE b

\* let best = { score: -Infinity, params: {}, bt: {} as BacktestResult }
initialBest == [score |-> NegInfinity, params |-> <<>>, bt |-> <<>>]

-----------------------------------------------------------------------------
(* Inputs of runOptimization.                                              *)

\* The length of the trending series of the optimization specification.
OptBars == 8

\* Bar k (0-based) of a series that opens at 1000 and closes a point lower
\* every bar; spike says whether the high reaches 1100.
fallingBar(k, spike) ==
    [o |-> 1000, h |-> IF spike THEN 1100 ELSE 1005, l |-> 950, c |-> 990 - k]

\* Bar k of a series that opens at 1000 and closes a point higher every bar.
risingBar(k) ==
    [o |-> 1000, h |-> 1100, l |-> 995, c |-> 1010 + k]

slide(n) == seriesOf([k \in 1 .. n |-> fallingBar(k - 1, FALSE)])
climb(n) == seriesOf([k \in 1 .. n |-> risingBar(k - 1)])
\* A falling series whose every third bar spikes.
choppy(n) == seriesOf([k \in 1 .. n |-> fallingBar(k - 1, k % 3 = 1)])

\* The series: three of OptBars bars, one of two bars, one of a single bar,
\* and the empty one.
OptSeries ==
    {slide(OptBars), climb(OptBars), choppy(OptBars), slide(2), slide(1), slide(0)}

\* The base configurations.
OptBases ==
    {paramsOf(RuleSets.rsi, Executions.plain),
     paramsOf(RuleSets.rsi, Executions.costly),
     paramsOf(RuleSets.momentum, Executions.costly)}

\* The sweeps: one parameter, and two parameters.
Sweeps ==
    {[p1Key |-> "rsi_period", p1Range |-> <<Num(1), Num(2)>>,
      p2Key |-> "select", p2Range |-> <<>>],
     [p1Key |-> "stop_loss_atr", p1Range |-> <<Num(1), Num(2), Num(3)>>,
      p2Key |-> "select", p2Range |-> <<>>],
     [p1Key |-> "stop_loss_atr", p1Range |-> <<Num(2), Num(1)>>,
      p2Key |-> "risk_per_trade", p2Range |-> <<Num(1), Num(2)>>]}

\* The objectives that scoreOf computes.
Metrics == {"win_rate", "max_drawdown"}

-----------------------------------------------------------------------------
(* runOptimization, one step per grid cell.                                *)

\* The backtest's variables while runOptimization runs: its calls of
\* runBacktest are evaluated within the step of their cell.
btIdle ==
    /\ p = baseParams
    /\ ind = <<>> /\ signals = <<>>
    /\ cash = initialLocals.cash
    /\ pos = initialLocals.pos
    /\ trades = initialLocals.trades
    /\ equity = initialLocals.equity
    /\ equityDates = initialLocals.equityDates
    /\ peak = initialLocals.peak
    /\ maxDD = initialLocals.maxDD
    /\ exposureBars = initialLocals.exposureBars
    /\ i = 1
    /\ pc = "idle"
    /\ result = <<>>

\* A call runOptimization(data, baseParams, p1Key, p1Range, p2Key, p2Range,
\* metric) with best as declared.
InitOpt ==
    /\ data \in OptSeries
    /\ baseParams \in OptBases
    /\ \E sw \in Sweeps :
         /\ p1Key = sw.p1Key /\ p1Range = sw.p1Range
         /\ p2Key = sw.p2Key /\ p2Range = sw.p2Range
    /\ metric \in Metrics
    /\ grid = <<>>
    /\ best = initialBest
    /\ row = 0 /\ col = 0
    /\ opc = "start"
    /\ optResult = <<>>
    /\ currentParams = <<>>
    /\ btIdle
    /\ rangeIdle
    /\ oneCall

\* Sweeps whose second range is not used or whose key is not a supported
\* name: a second key with an empty range, a second range without a key, a
\* first key that paramKeyMap does not hold, and such a second key.
EdgeSweeps ==
    {[p1Key |-> "rsi_period", p1Range |-> <<Num(1), Num(2)>>,
      p2Key |-> "rsi_oversold", p2Range |-> <<>>],
     [p1Key |-> "rsi_period", p1Range |-> <<Num(1), Num(2)>>,
      p2Key |-> "select", p2Range |-> <<Num(40), Num(50)>>],
     [p1Key |-> "rsiPeriod", p1Range |-> <<Num(1), Num(2)>>,
      p2Key |-> "select", p2Range |-> <<>>],
     [p1Key |-> "stop_loss_atr", p1Range |-> <<Num(1), Num(2)>>,
      p2Key |-> "take_profit_atr", p2Range |-> <<Num(1), Num(2)>>]}

\* A call of runOptimization with one of these sweeps.
InitEdge ==
    /\ data \in OptSeries
    /\ baseParams \in OptBases
    /\ \E sw \in EdgeSweeps :
         /\ p1Key = sw.p1Key /\ p1Range = sw.p1Range
         /\ p2Key = sw.p2Key /\ p2Range = sw.p2Range
    /\ metric \in Metrics
    /\ grid = <<>>
    /\ best = initialBest
    /\ row = 0 /\ col = 0
    /\ opc = "start"
    /\ optResult = <<>>
    /\ currentParams = <<>>
    /\ btIdle
    /\ rangeIdle
    /\ oneCall

eff == effectiveP2Range(p2Key, p2Range)

\* The start of the loop without the test of the lengths.
OptBeginUnchecked ==
    /\ opc = "start"
    /\ grid' = emptyGrid(p1Range, eff)
    /\ row' = 0 /\ col' = 0
    /\ opc' = "loop"
    /\ UNCHANGED <<best, optResult, currentParams>>
    /\ UNCHANGED <<baseParams, p1Key, p1Range, p2Key, p2Range, metric>>
    /\ UNCHANGED <<btVars, rangeVars, callVars>>

\* if (dates.length > 1 && c.length > 1): the grid of nulls.
OptBegin ==
    /\ opc = "start"
    /\ Len(data.dates) > 1 /\ Len(data.c) > 1
    /\ grid' = emptyGrid(p1Range, eff)
    /\ row' = 0 /\ col' = 0
    /\ opc' = "loop"
    /\ UNCHANGED <<best, optResult, currentParams>>
    /\ UNCHANGED <<baseParams, p1Key, p1Range, p2Key, p2Range, metric>>
    /\ UNCHANGED <<btVars, rangeVars, callVars>>

\* grid[i][j] = isFinite(score) ? score : null, and the update of best.
storeCell(cell) ==
    /\ grid' = [grid EXCEPT ![row + 1][col + 1] =
                   IF isFinite(cell.score) THEN cell.score ELSE null]
    /\ best' = betterOf(cell, best)

\* The body of the inner loop for the cell (row, col).
OptCell ==
    /\ opc = "loop"
    /\ row < Len(eff) /\ col < Len(p1Range)
    /\ storeCell(evalCell(data, baseParams, p1Key, p1Range, p2Key, eff, metric, row, col))
    /\ col' = col + 1
    /\ currentParams' = currentParamsOf(baseParams, p1Key, At(p1Range, col), p2Key, At(eff, row))
    /\ UNCHANGED <<row, opc, optResult>>
    /\ UNCHANGED <<baseParams, p1Key, p1Range, p2Key, p2Range, metric>>
    /\ UNCHANGED <<btVars, rangeVars, callVars>>

\* The end of the inner loop: the next row.
OptNextRow ==
    /\ opc = "loop"
    /\ row < Len(eff) /\ col >= Len(p1Range)
    /\ row' = row + 1 /\ col' = 0
    /\ UNCHANGED <<grid, best, opc, optResult, currentParams>>
    /\ UNCHANGED <<baseParams, p1Key, p1Range, p2Key, p2Range, metric>>
    /\ UNCHANGED <<btVars, rangeVars, callVars>>

\* return { grid, best }
OptReturn ==
    /\ opc = "loop"
    /\ row >= Len(eff)
    /\ optResult' = [grid |-> grid, best |-> best]
    /\ opc' = "done"
    /\ UNCHANGED <<grid, best, row, col, currentParams>>
    /\ UNCHANGED <<baseParams, p1Key, p1Range, p2Key, p2Range, metric>>
    /\ UNCHANGED <<btVars, rangeVars, callVars>>

\* return { grid: [], best: null }
OptFallback ==
    /\ opc = "start"
    /\ ~(Len(data.dates) > 1 /\ Len(data.c) > 1)
    /\ optResult' = [grid |-> <<>>, best |-> null]
    /\ opc' = "done"
    /\ UNCHANGED <<grid, best, row, col, currentParams>>
    /\ UNCHANGED <<baseParams, p1Key, p1Range, p2Key, p2Range, metric>>
    /\ UNCHANGED <<btVars, rangeVars, callVars>>

NextOpt ==
    \/ OptBegin
    \/ OptCell
    \/ OptNextRow
    \/ OptReturn
    \/ OptFallback

SpecOpt == InitOpt /\ [][NextOpt]_vars

-----------------------------------------------------------------------------
(* Properties of runOptimization.                                          *)

\* The cells (row, column), 0-based, of a grid of |eff| rows.
SpecEdge == InitEdge /\ [][NextOpt]_vars

cellsAll == Idx(Len(eff)) \X Idx(Len(p1Range))

\* a comes before b in the row-major scan.
before(a, b) == a[1] < b[1] \/ (a[1] = b[1] /\ a[2] < b[2])

\* The cells the loop has evaluated.
cellsDone == {x \in cellsAll : opc \in {"loop", "done"} /\ before(x, <<row, col>>)}

gridAt(x) == grid[x[1] + 1][x[2] + 1]

\* The configuration of a cell: the base configuration with parameter 1 set
\* to range1[j] and, in a two-parameter sweep, parameter 2 set to range2[i].
cfgOf(x) ==
    LET one == [baseParams EXCEPT ![paramKeyMap[p1Key]] = p1Range[x[2] + 1]]
    IN  IF p2Key = "select" THEN one
        ELSE [one EXCEPT ![paramKeyMap[p2Key]] = p2Range[x[1] + 1]]

\* The swept values of a cell.
sweptOf(x) ==
    IF p2Key = "select" THEN (paramKeyMap[p1Key] :> p1Range[x[2] + 1])
    ELSE (paramKeyMap[p1Key] :> p1Range[x[2] + 1])
           @@ (paramKeyMap[p2Key] :> p2Range[x[1] + 1])

\* The backtest of a cell's configuration, run on its own.
directBt(x) == runBacktest(data, calculateAllIndicators(data, cfgOf(x)), cfgOf(x), "daily")

\* The requested objective of a backtest.
objective(bt) ==
    IF metric = "win_rate" THEN bt.metrics.winRate
    ELSE Sub(Num(0), bt.metrics.maxDrawdown)

\* C7: every grid cell that holds a value holds the requested objective of
\* runBacktest(data, calculateAllIndicators(data, cfg), cfg, 'daily') for the
\* cell's own cfg (base with parameter 1 = range1[j], parameter 2 =
\* range2[i]), whatever cells were evaluated before it; the returned grid is
\* that grid.
C7_GridMatchesDirectRun ==
    /\ \A x \in cellsDone :
         gridAt(x) # null => gridAt(x) = objective(directBt(x))
    /\ (opc = "done" /\ Len(data.c) > 1) => optResult.grid = grid

\* A finished sweep whose grid holds two different values.
C7_Witness ==
    /\ opc = "done"
    /\ \E x, y \in cellsDone :
         /\ gridAt(x) # null /\ gridAt(y) # null
         /\ gridAt(x) # gridAt(y)
         /\ optResult.grid[y[1] + 1][y[2] + 1] = objective(directBt(y))

\* The evaluated cells that hold a value, i.e. have a finite score.
finiteCells == {x \in cellsDone : gridAt(x) # null}

\* C8: a cell whose backtest has fewer than 5 round trips holds null in the
\* grid under either objective, and is not the best cell once some cell has
\* a finite score.
C8_TooFewTrades ==
    \A x \in cellsDone :
        directBt(x).metrics.numTrades < 5 =>
            /\ gridAt(x) = null
            /\ finiteCells # {} => (best.params # sweptOf(x) /\ isFinite(best.score))

\* A finished sweep with a cell of four round trips and a cell with a value.
C8_Witness ==
    /\ opc = "done"
    /\ finiteCells # {}
    /\ \E x \in cellsDone :
         /\ directBt(x).metrics.numTrades = 4
         /\ gridAt(x) = null
         /\ optResult.best.params # sweptOf(x)

\* C9: once a cell has a finite score, best.score is the maximum of the
\* scores, and best is the first cell of the row-major scan with that score;
\* the returned best is that cell.
C9_BestIsFirstMaximum ==
    finiteCells # {} =>
        /\ \A x \in finiteCells : Le(gridAt(x), best.score)
        /\ \E x \in finiteCells :
             /\ gridAt(x) = best.score
             /\ best.params = sweptOf(x)
             /\ \A y \in finiteCells : gridAt(y) = best.score => ~before(y, x)
        /\ opc = "done" => optResult.best = best

\* A finished sweep in which two cells tie at the maximum and the earlier one
\* is best.
C9_Witness ==
    /\ opc = "done"
    /\ \E x, y \in finiteCells :
         /\ before(x, y)
         /\ gridAt(x) = optResult.best.score
         /\ gridAt(y) = optResult.best.score
         /\ optResult.best.params = sweptOf(x)

\* C10: a returned best that is not null carries the swept values of some
\* grid cell and that cell's complete BacktestResult.
C10_BestIsSomeCell ==
    (opc = "done" /\ optResult.best # null) =>
        \E x \in cellsAll :
            /\ optResult.best.params = sweptOf(x)
            /\ optResult.best.bt = directBt(x)

\* C11: on a series of fewer than 2 bars runOptimization evaluates no cell
\* (the loop is never entered, grid and best stay as declared) and returns
\* the empty grid with best = null.
C11_ShortSeriesFallback ==
    Len(data.c) < 2 =>
        /\ opc \in {"start", "done"}
        /\ grid = <<>> /\ best = initialBest
        /\ opc = "done" => optResult = [grid |-> <<>>, best |-> null]

\* The return on a series of one bar.
C11_Witness ==
    /\ Len(data.c) = 1
    /\ opc = "done"
    /\ optResult.grid = <<>> /\ optResult.best = null

-----------------------------------------------------------------------------
(* utils.ts: parseRangeSpec.  A string is the sequence of its characters.  *)

\* NaN, as Number returns it.
NaN == <<0, 0>>

DigitValue ==
    ("0" :> 0) @@ ("1" :> 1) @@ ("2" :> 2) @@ ("3" :> 3) @@ ("4" :> 4) @@
    ("5" :> 5) @@ ("6" :> 6) @@ ("7" :> 7) @@ ("8" :> 8) @@ ("9" :> 9)

isDigit(ch) == ch \in DOMAIN DigitValue

RECURSIVE Pow10(_)
Pow10(k) == IF k = 0 THEN 1 ELSE 10 * Pow10(k - 1)

\* spec.replace(/\s+/g, '')
stripSpace(str) == SelectSeq(str, LAMBDA ch : ch # " ")

\* str.split(sep): the pieces between the separators, from position k on,
\* cur being the piece under way.
RECURSIVE splitFrom(_, _, _, _)
splitFrom(str, sep, k, cur) ==
    IF k > Len(str) THEN <<cur>>
    ELSE IF str[k] = sep THEN <<cur>> \o splitFrom(str, sep, k + 1, <<>>)
    ELSE splitFrom(str, sep, k + 1, Append(cur, str[k]))

split(str, sep) == splitFrom(str, sep, 1, <<>>)

\* The position after the digits that start at position k.
RECURSIVE takeDigits(_, _)
takeDigits(str, k) ==
    IF k <= Len(str) /\ isDigit(str[k]) THEN takeDigits(str, k + 1) ELSE k

\* The value of the digits at positions a .. b - 1.
RECURSIVE digitsValue(_, _, _)
digitsValue(str, a, b) ==
    IF b <= a THEN 0
    ELSE 10 * digitsValue(str, a, b - 1) + DigitValue[str[b - 1]]

\* Number(str) for a string without white space: the empty string is 0, a
\* decimal literal (sign, digits, fraction, exponent) is its value, anything
\* else is NaN.  (Infinity and the 0x/0o/0b literals are not modelled.)
hasDotAt(str, b) == b <= Len(str) /\ str[b] = "."

hasExpAt(str, d) == d <= Len(str) /\ str[d] \in {"e", "E"}

\* 1 when a sign follows the exponent letter at position d, else 0.
expSign(str, d) ==
    IF hasExpAt(str, d) /\ d + 1 <= Len(str) /\ str[d + 1] \in {"+", "-"} THEN 1 ELSE 0

\* The digits at a .. b - 1 before the point and at c .. d - 1 after it.
mantissa(str, a, b, c, d) ==
    Rat(digitsValue(str, a, b) * Pow10(d - c) + digitsValue(str, c, d), Pow10(d - c))

\* The mantissa scaled by the exponent ex, whose digits start at e1.
scaledBy(str, d, e1, mant, ex) ==
    IF hasExpAt(str, d) /\ e1 = d + 2 /\ str[d + 1] = "-"
      THEN Div(mant, Num(Pow10(ex)))
      ELSE Mul(mant, Num(Pow10(ex)))

\* The value of a literal whose integer digits are at a .. b - 1, fraction
\* digits at c .. d - 1 and exponent digits at e1 .. e2 - 1.
numberValue(str, a, b, c, d, e1, e2) ==
    IF ~(/\ (b - a) + (d - c) > 0
         /\ IF hasExpAt(str, d) THEN e2 > e1 /\ e2 = Len(str) + 1
                                ELSE d = Len(str) + 1)
      THEN NaN
    ELSE IF str[1] = "-"
      THEN Neg(scaledBy(str, d, e1, mantissa(str, a, b, c, d),
                        IF hasExpAt(str, d) THEN digitsValue(str, e1, e2) ELSE 0))
    ELSE scaledBy(str, d, e1, mantissa(str, a, b, c, d),
                  IF hasExpAt(str, d) THEN digitsValue(str, e1, e2) ELSE 0)

numberTail(str, a, b, c, d, e1) ==
    numberValue(str, a, b, c, d, e1, takeDigits(str, e1))

numberExp(str, a, b, c, d) ==
    numberTail(str, a, b, c, d, d + 1 + expSign(str, d))

numberFrac(str, a, b, c) ==
    numberExp(str, a, b, c, IF hasDotAt(str, b) THEN takeDigits(str, c) ELSE b)

numberInt(str, a, b) ==
    numberFrac(str, a, b, IF hasDotAt(str, b) THEN b + 1 ELSE b)

Number(str) ==
    IF str = <<>> THEN Num(0)
    ELSE IF str[1] \in {"+", "-"} THEN numberInt(str, 2, takeDigits(str, 2))
    ELSE numberInt(str, 1, takeDigits(str, 1))

\* isFinite(x) for x a number or undefined
isFiniteNumber(x) == x # null /\ x[2] # 0

\* Number.isInteger(x) for x finite
isInteger(x) == x[2] = 1

\* The number of decimal digits of the positive integer n.
RECURSIVE numDigits(_)
numDigits(n) == IF n < 10 THEN 1 ELSE 1 + numDigits(n \div 10)

\* The least f with x * 10^f an integer, for x a finite decimal.
RECURSIVE decimalsOf(_)
decimalsOf(x) == IF x[2] = 1 THEN 0 ELSE 1 + decimalsOf(Mul(x, Num(10)))

\* (String(step).split('.')[1] || '').length for step > 0 a finite decimal
\* below 1e21: String writes the digits with a point when the first
\* significant digit is no further than the sixth decimal place, and
\* d.ddde-x beyond that.
precisionOf(x) ==
    LET f == decimalsOf(x)
        digits == Mul(x, Num(Pow10(f)))[1]
        k == numDigits(digits)
        n == k - f
    IN  IF f = 0 THEN 0
        ELSE IF n > -6 THEN f
        ELSE IF k = 1 THEN 0
        ELSE (k - 1) + 2 + numDigits(1 - n)

\* Number(v.toFixed(precision)) for v >= 0: v rounded to precision decimals,
\* a tie going up.
toFixed(x, precision) ==
    Rat(Floor(Add(Mul(x, Num(Pow10(precision))), Rat(1, 2))), Pow10(precision))

\* The default of the parameter cap.
DefaultCap == 80

\* 1e-9
Epsilon == <<1, 1000000000>>

\* The statements of parseRangeSpec before the loop: out is <<>> on an early
\* return, and the locals of the loop otherwise.
earlyReturn == [returns |-> TRUE]

\* if (!isFinite(step) || step <= 0) step = 1
rangeOfStep(mn, mx, given) ==
    [returns |-> FALSE, min |-> mn, max |-> mx,
     step |-> IF ~isFiniteNumber(given) \/ Le(given, Num(0)) THEN Num(1) ELSE given]

\* let step = stepStr ? Number(stepStr) : (integers ? 1 : 0.5)
rangeOfMinMax(stepStr, mn, mx) ==
    rangeOfStep(mn, mx,
                IF stepStr # <<>> THEN Number(stepStr)
                ELSE IF isInteger(mn) /\ isInteger(mx) THEN Num(1) ELSE Rat(1, 2))

\* if (!isFinite(min) || !isFinite(max)) return []; if (min > max) swap
rangeOfBounds(stepStr, lo, hi) ==
    IF ~isFiniteNumber(lo) \/ ~isFiniteNumber(hi) THEN earlyReturn
    ELSE IF Gt(lo, hi) THEN rangeOfMinMax(stepStr, hi, lo)
    ELSE rangeOfMinMax(stepStr, lo, hi)

\* const [min, max] = range.split('-').map(Number)
rangeOfNumbers(stepStr, nums) == rangeOfBounds(stepStr, At(nums, 0), At(nums, 1))

numbersOf(strs) == [k \in DOMAIN strs |-> Number(strs[k])]

\* if (!range) return []
rangeOfStrings(range, stepStr) ==
    IF range = <<>> THEN earlyReturn
    ELSE rangeOfNumbers(stepStr, numbersOf(split(range, "-")))

\* const [range, stepStr] = clean.split(':')
rangeOfParts(parts) == rangeOfStrings(At(parts, 0), At(parts, 1))

rangeLocals(spec) ==
    IF spec = <<>> THEN earlyReturn
    ELSE rangeOfParts(split(stripSpace(spec), ":"))

\* v <= max + 1e-9 && out.length < cap
rangeContinues(v, mx, out, cap) == Le(Sub(v, mx), Epsilon) /\ Len(out) < cap

\* The bounds of the specifications: missing, integers, a fraction, a word,
\* and one with white space.
BoundTokens ==
    {<<>>, <<"0">>, <<"1">>, <<"5">>, <<"1", "0">>, <<"2", "0">>,
     <<"0", ".", "5">>, <<"a", "b", "c">>, <<" ", "3">>}

\* The steps: integers, zero, a negative, fractions, 1e-7 in two spellings,
\* a word, and the empty string.
StepTokens ==
    {<<"2">>, <<"0">>, <<"-", "1">>, <<"0", ".", "5">>, <<"0", ".", "2", "5">>,
     <<"1", "e", "-", "7">>, <<"0", ".", "0", "0", "0", "0", "0", "0", "1">>,
     <<"x">>, <<>>}

\* The specifications: min-max, min-max:step, and the empty string, a word, a
\* single number, white space, and two ranges of 101 integers.
RangeSpecs ==
    {lo \o <<"-">> \o hi : lo \in BoundTokens, hi \in BoundTokens}
    \cup {lo \o <<"-">> \o hi \o <<":">> \o st :
             lo \in BoundTokens, hi \in BoundTokens, st \in StepTokens}
    \cup {<<>>, <<"a", "b", "c">>, <<"5">>, <<" ">>,
          <<"0", "-", "1", "0", "0">>, <<"1", "0", "0", "-", "0">>}

\* A call parseRangeSpec(spec), as App.tsx makes it: cap takes its default.
InitRange ==
    /\ rsSpec \in RangeSpecs
    /\ rsMin = <<>> /\ rsMax = <<>> /\ rsStep = <<>> /\ rsV = <<>>
    /\ rsOut = <<>>
    /\ rsPc = "start"
    /\ baseParams = defaultParams
    /\ p1Key = "select" /\ p1Range = <<>>
    /\ p2Key = "select" /\ p2Range = <<>>
    /\ metric = "sharpe"
    /\ data = seriesOf(<<>>)
    /\ grid = <<>> /\ best = <<>> /\ row = 0 /\ col = 0
    /\ opc = "idle" /\ optResult = <<>>
    /\ currentParams = <<>>
    /\ btIdle
    /\ oneCall

\* The statements before the loop: an early return of [], or const out = []
\* and let v = min.
RangeStart ==
    /\ rsPc = "start"
    /\ LET loc == rangeLocals(rsSpec)
       IN  IF loc.returns
             THEN /\ rsPc' = "done"
                  /\ UNCHANGED <<rsMin, rsMax, rsStep, rsV>>
             ELSE /\ rsMin' = loc.min /\ rsMax' = loc.max /\ rsStep' = loc.step
                  /\ rsV' = loc.min
                  /\ rsPc' = "loop"
    /\ rsOut' = <<>>
    /\ UNCHANGED <<rsSpec, btVars, optVars, callVars>>

\* The body of the loop and v += step.
RangePush ==
    /\ rsPc = "loop"
    /\ rangeContinues(rsV, rsMax, rsOut, DefaultCap)
    /\ rsOut' = Append(rsOut, toFixed(rsV, precisionOf(rsStep)))
    /\ rsV' = Add(rsV, rsStep)
    /\ UNCHANGED <<rsSpec, rsMin, rsMax, rsStep, rsPc, btVars, optVars, callVars>>

\* return out
RangeReturn ==
    /\ rsPc = "loop"
    /\ ~rangeContinues(rsV, rsMax, rsOut, DefaultCap)
    /\ rsPc' = "done"
    /\ UNCHANGED <<rsSpec, rsMin, rsMax, rsStep, rsV, rsOut, btVars, optVars, callVars>>

NextRange ==
    \/ RangeStart
    \/ RangePush
    \/ RangeReturn

SpecRange == InitRange /\ [][NextRange]_vars

\* The characters of "10-20:2" and of "abc".
tenToTwentyByTwo == <<"1", "0", "-", "2", "0", ":", "2">>
abc == <<"a", "b", "c">>

\* C12: parseRangeSpec returns at most 80 numbers in strictly ascending
\* order for every string; "10-20:2" gives [10,12,14,16,18,20] and "abc"
\* gives [].
C12_CappedAscending ==
    /\ Len(rsOut) <= 80
    /\ \A k \in 1 .. Len(rsOut) - 1 : Lt(rsOut[k], rsOut[k + 1])
    /\ (rsPc = "done" /\ rsSpec = tenToTwentyByTwo) =>
           rsOut = <<Num(10), Num(12), Num(14), Num(16), Num(18), Num(20)>>
    /\ (rsPc = "done" /\ rsSpec = abc) => rsOut = <<>>

\* The pieces of a specification, as the claims speak of them.
rangeOf(spec) == At(split(stripSpace(spec), ":"), 0)
stepOf(spec) == At(split(stripSpace(spec), ":"), 1)
boundsOf(spec) == split(rangeOf(spec), "-")

\* An invalid specification: empty, a bound missing or not a number, or a
\* step that is a number <= 0.
invalidSpec(spec) ==
    \/ spec = <<>>
    \/ Len(boundsOf(spec)) < 2
    \/ \E k \in 1 .. 2 : Number(boundsOf(spec)[k]) = NaN
    \/ /\ stepOf(spec) # <<>>
       /\ Number(stepOf(spec)) # NaN
       /\ Le(Number(stepOf(spec)), Num(0))

\* C13: parseRangeSpec returns [] for every invalid specification.
C13_InvalidIsEmpty ==
    (rsPc = "done" /\ invalidSpec(rsSpec)) => rsOut = <<>>

-----------------------------------------------------------------------------
(* calculateAllIndicators on its own.                                      *)

\* The number of bars of the constant-price series.
FlatBars == 30

\* The largest period of the indicator configurations.
MaxPeriod == 4

\* A series of n bars with close 100, high 101 and low 99.
flatSeries(n) == seriesOf([k \in 1 .. n |-> [o |-> 100, h |-> 101, l |-> 99, c |-> 100]])

\* The series: none to MaxBars bars of every shape, and the constant one.
IndSeries == SeriesUpTo(MaxBars) \cup {seriesOf(<<>>), flatSeries(FlatBars)}

\* The configuration whose periods are k (k + 1 for the slow ones).
periodsOf(k) ==
    [defaultParams EXCEPT !.bbPeriod = Num(k), !.rsiPeriod = Num(k),
                          !.macdFast = Num(k), !.macdSlow = Num(k + 1),
                          !.macdSignal = Num(k),
                          !.trendFilterPeriod = Num(k + 1),
                          !.momentumSMAPeriod = Num(k)]

\* The configurations: every period up to MaxPeriod, and RSI period 14.
IndParams ==
    {periodsOf(k) : k \in 1 .. MaxPeriod}
    \cup {[defaultParams EXCEPT !.rsiPeriod = Num(14)]}

\* A call calculateAllIndicators(data, p).
InitInd ==
    /\ data \in IndSeries
    /\ p \in IndParams
    /\ ind = <<>> /\ signals = <<>>
    /\ cash = initialLocals.cash
    /\ pos = initialLocals.pos
    /\ trades = initialLocals.trades
    /\ equity = initialLocals.equity
    /\ equityDates = initialLocals.equityDates
    /\ peak = initialLocals.peak
    /\ maxDD = initialLocals.maxDD
    /\ exposureBars = initialLocals.exposureBars
    /\ i = 1
    /\ pc = "indicators"
    /\ result = <<>>
    /\ optIdle
    /\ rangeIdle
    /\ oneCall

\* The object calculateAllIndicators returns.
CalcIndicators ==
    /\ pc = "indicators"
    /\ ind' = calculateAllIndicators(data, p)
    /\ pc' = "calculated"
    /\ UNCHANGED <<data, p, signals, cash, pos, trades, equity, equityDates, peak,
                   maxDD, exposureBars, i, result, optVars, rangeVars, callVars>>

NextInd == CalcIndicators

SpecInd == InitInd /\ [][NextInd]_vars

\* The arithmetic mean of values[i - per + 1 .. i] (0-based), summed from the
\* first of them on.
RECURSIVE windowSum(_, _, _)
windowSum(values, from, to) ==
    IF from > to THEN Num(0)
    ELSE Add(values[from + 1], windowSum(values, from + 1, to))

meanOver(values, k, per) == Div(windowSum(values, k - per + 1, k), Num(per))

\* a is null before index per - 1 and defined from there on.
definedFrom(a, per) ==
    \A k \in Idx(Len(a)) : (At(a, k) = null) <=> (k < per - 1)

\* a holds the mean of the window of per values wherever it is defined.
holdsMeans(a, values, per) ==
    \A k \in Idx(Len(a)) : k >= per - 1 => At(a, k) = meanOver(values, k, per)

\* C14: sma and the three Bollinger bands are null at indices 0 .. p - 2 and
\* defined from index p - 1 on, and the SMA and the middle band there are the
\* arithmetic mean of the p values up to the index.
C14_WindowMeans ==
    pc = "calculated" =>
        /\ definedFrom(ind.bb.upper, IntOf(p.bbPeriod))
        /\ definedFrom(ind.bb.middle, IntOf(p.bbPeriod))
        /\ definedFrom(ind.bb.lower, IntOf(p.bbPeriod))
        /\ holdsMeans(ind.bb.middle, data.c, IntOf(p.bbPeriod))
        /\ definedFrom(ind.sma_slow, IntOf(p.trendFilterPeriod))
        /\ holdsMeans(ind.sma_slow, data.c, IntOf(p.trendFilterPeriod))
        /\ definedFrom(ind.sma_fast, IntOf(p.momentumSMAPeriod))
        /\ holdsMeans(ind.sma_fast, data.c, IntOf(p.momentumSMAPeriod))

\* Four bars with three different closes and period 3: the bands and the fast
\* SMA are null at bars 0 and 1 and hold a mean at bars 2 and 3.
C14_Witness ==
    /\ pc = "calculated"
    /\ Len(data.c) = 4
    /\ IntOf(p.bbPeriod) = 3
    /\ data.c[2] # data.c[3] /\ data.c[3] # data.c[4] /\ data.c[2] # data.c[4]
    /\ ind.bb.middle[2] = null /\ ind.sma_fast[2] = null
    /\ ind.bb.middle[4] = meanOver(data.c, 3, 3)
    /\ ind.sma_fast[4] = meanOver(data.c, 3, 3)

\* C15: on 30 bars of close 100, high 101, low 99 with RSI period 14 every
\* defined RSI value is 50 and every defined ATR value is 2.
C15_FlatSeries ==
    (pc = "calculated" /\ data = flatSeries(30) /\ IntOf(p.rsiPeriod) = 14) =>
        /\ \A k \in DOMAIN ind.rsi : ind.rsi[k] # null => ind.rsi[k] = Num(50)
        /\ \A k \in DOMAIN ind.atr : ind.atr[k] # null => ind.atr[k] = Num(2)

\* The sequences calculateAllIndicators returns.
indicatorSeqs(x) ==
    {x.bb.upper, x.bb.middle, x.bb.lower, x.rsi,
     x.macd.MACD, x.macd.signal, x.macd.histogram,
     x.atr, x.sma_slow, x.sma_fast}

\* C18: every sequence calculateAllIndicators returns has the length of the
\* series, whatever that length is.
C18_AlignedLengths ==
    pc = "calculated" => \A a \in indicatorSeqs(ind) : Len(a) = Len(data.c)

-----------------------------------------------------------------------------
(* Further properties of generateSignals and runBacktest.                  *)

\* Every entry and exit rule is disabled.
allRulesOff == ~p.useBB /\ ~p.useRSI /\ ~p.useMACD /\ ~p.useMomentumEntry

\* C16: with useBB, useRSI, useMACD and useMomentumEntry all disabled, trend
\* filter enabled or not, generateSignals emits no signal, runBacktest
\* records no trade, every equity entry is the initial capital 10,000 and
\* finalEquity is 10,000.
C16_Passivity ==
    allRulesOff =>
        /\ signals = <<>>
        /\ trades = <<>>
        /\ \A k \in DOMAIN equity : equity[k] = Num(10000)
        /\ pc = "done" =>
             /\ result.signals = <<>> /\ result.trades = <<>>
             /\ \A k \in DOMAIN result.equity : result.equity[k] = Num(10000)
             /\ result.metrics.finalEquity = Num(10000)
             /\ result.metrics.numTrades = 0

\* A finished backtest of four bars with only the trend filter enabled, on a
\* series whose closes move.
C16_Witness ==
    /\ allRulesOff /\ p.useTrendFilter
    /\ pc = "done"
    /\ Len(data.c) = 4
    /\ \E k \in 1 .. 3 : Gt(data.c[k + 1], data.c[k])
    /\ Len(result.equity) = 3
    /\ result.metrics.finalEquity = Num(10000)

-----------------------------------------------------------------------------
(* Two calls in a row on the same arguments.                               *)

\* The locals a call of runBacktest starts from when another call has run
\* before it, had cash outlived the call.
leftoverLocals == [initialLocals EXCEPT !.cash = cash]

\* The locals a call of runBacktest starts from when another call has run
\* before it: they are declared anew.
secondCallLocals == initialLocals

\* The first call, on series one bar shorter than those of Spec.
InitTwice ==
    /\ Init
    /\ Len(data.c) < MaxBars

\* The first call has returned: calculateAllIndicators and runBacktest are
\* called again on the same data, p and timeframe.
CallAgain ==
    /\ pc = "done"
    /\ calls = 1
    /\ firstResult' = [ind |-> ind, bt |-> result]
    /\ calls' = 2
    /\ ind' = calculateAllIndicators(data, p)
    /\ signals' = <<>>
    /\ setLocals(secondCallLocals)
    /\ i' = 1
    /\ pc' = "signals"
    /\ result' = <<>>
    /\ UNCHANGED <<data, p, optVars, rangeVars>>

NextTwice ==
    \/ Next
    \/ CallAgain

SpecTwice == InitTwice /\ [][NextTwice]_vars

-----------------------------------------------------------------------------
(* generateSignals: the trend filter and the vote counts.                  *)

\* The signals pushed for bar k.
signalsAt(k) == {signals[j] : j \in {x \in DOMAIN signals : signals[x].index = k}}

\* The trend filter is on and bar k closes below the slow SMA defined there.
belowTrend(k) ==
    /\ p.useTrendFilter
    /\ At(ind.sma_slow, k) # null
    /\ Lt(At(data.c, k), At(ind.sma_slow, k))

\* C19: with the trend filter on, no buy signal is pushed at a bar closing
\* below its slow SMA, and a reversal sell that fired on such a bar is pushed.
C19_TrendVeto ==
    /\ \A j \in DOMAIN signals :
          signals[j].type = "buy" => ~belowTrend(signals[j].index)
    /\ pc # "signals" =>
          \A k \in 1 .. N - 1 :
              belowTrend(k) /\ isReversalSell(data, ind, p, k) =>
                  \E s \in signalsAt(k) : s.type = "sell" /\ s.reason = "Reversal Sell"

\* A reversal buy fired on a bar below the slow SMA and no signal was pushed.
reversalBuyWithdrawn ==
    /\ pc # "signals"
    /\ \E k \in 1 .. N - 1 :
          /\ belowTrend(k)
          /\ isReversalBuy(data, ind, p, k)
          /\ signalsAt(k) = {}

\* Below the slow SMA a momentum buy and a reversal sell fired on one bar:
\* the buy was withdrawn and the sell was pushed.
C19_Witness ==
    /\ pc # "signals"
    /\ \E k \in 1 .. N - 1 :
          /\ belowTrend(k)
          /\ isMomentumBuy(data, ind, p, k)
          /\ isReversalSell(data, ind, p, k)
          /\ signalsAt(k) = {[type |-> "sell", index |-> k, date |-> At(data.dates, k),
                               price |-> At(data.c, k), reason |-> "Reversal Sell"]}

\* C20: a Reversal Sell is pushed only with sell votes and no buy vote, a
\* Reversal Entry only with buy votes and no sell vote; a bar with votes on
\* both sides gets neither.
C20_VotesCancel ==
    \A j \in DOMAIN signals :
        LET sig == signals[j]
            buyVotes == reversalBuys(data, ind, p, sig.index)
            sellVotes == reversalSells(data, ind, p, sig.index)
        IN  /\ sig.reason = "Reversal Sell" => sig.type = "sell" /\ sellVotes > 0 /\ buyVotes = 0
            /\ sig.reason = "Reversal Entry" => sig.type = "buy" /\ buyVotes > 0 /\ sellVotes = 0
            /\ buyVotes > 0 /\ sellVotes > 0 => sig.reason = "Momentum Entry"

\* A bar with a buy vote and a sell vote got no signal, and the same run
\* pushed a Reversal Entry or a Reversal Sell on another bar.
C20_Witness ==
    /\ pc # "signals"
    /\ \E k \in 1 .. N - 1 :
          /\ reversalBuys(data, ind, p, k) > 0
          /\ reversalSells(data, ind, p, k) > 0
          /\ signalsAt(k) = {}
    /\ \E j \in DOMAIN signals : signals[j].reason \in {"Reversal Entry", "Reversal Sell"}

-----------------------------------------------------------------------------
(* runBacktest: the entry rule.                                            *)

\* ATR-or-2%-of-close of bar k.
atrOrFallback(k) ==
    IF At(ind.atr, k) # null THEN At(ind.atr, k)
    ELSE Div(Mul(At(data.c, k), Num(2)), Num(100))

\* floor((cash x riskPct/100) / max(0.01, stopATR x ATR-or-2%-of-close))
sizedShares(k) ==
    Floor(Div(Div(Mul(cash, p.riskPct), Num(100)),
              MaxR(Rat(1, 100), Mul(p.stopATR, atrOrFallback(k)))))

\* shares x open x (1 + slip) + commission
entryCost(k) ==
    Add(Mul(Num(sizedShares(k)),
            Mul(At(data.o, k), Add(Num(1), Div(p.slipBps, Num(10000))))),
        p.commission)

entryTaken(k) == sizedShares(k) > 0 /\ Ge(cash, entryCost(k))

\* The entry rule is about to run on a bar with no position after the exit
\* rules and a buy signal on the bar before.
entryDue == pc = "signalEntry" /\ pos = <<>> /\ (i - 1) \in buyIdx(signals)

\* C21: the entry rule on a flat bar after a buy signal sizes the position as
\* floor((cash x riskPct/100) / max(0.01, stopATR x ATR-or-2%-of-close)); it
\* buys exactly when shares > 0 and cash >= shares x open x (1 + slip) +
\* commission, and cash then falls by that amount; otherwise the ledger and
\* cash are unchanged.
C21_EntrySizing ==
    [][entryDue =>
          IF entryTaken(i)
            THEN /\ cash' = Sub(cash, entryCost(i))
                 /\ Len(trades') = Len(trades) + 1
                 /\ trades'[Len(trades')].type = "buy"
                 /\ trades'[Len(trades')].shares = sizedShares(i)
                 /\ pos' # <<>> /\ pos'[1].shares = sizedShares(i)
            ELSE /\ cash' = cash
                 /\ trades' = trades
                 /\ pos' = <<>>]_vars

\* An entry whose share count is a quotient rounded down was taken under
\* slippage and commission, after an earlier round trip had changed cash.
C21_Witness ==
    /\ pc = "mark"
    /\ pos # <<>>
    /\ trades[Len(trades)].date = At(data.dates, i)
    /\ Len(trades) >= 3
    /\ p.commission # Num(0) /\ p.slipBps # Num(0)
    /\ Mul(Num(pos[1].shares), Mul(p.stopATR, atrOrFallback(i)))
          # Div(Mul(ledgerCash(trades, Len(trades) - 1), p.riskPct), Num(100))

\* A due entry that cash could not cover was skipped.
entrySkipped ==
    /\ entryDue
    /\ sizedShares(i) > 0
    /\ ~entryTaken(i)

-----------------------------------------------------------------------------
(* runOptimization: an unused second range, and unsupported keys.          *)

\* The second parameter is the 'select' entry, or its range is empty.
secondRangeUnused == p2Key = "select" \/ p2Range = <<>>

\* The series has the two bars a sweep needs and the loops were entered.
sweepEntered == opc \in {"loop", "done"} /\ Len(data.c) > 1

\* The grid has one row of |range1| cells.
oneRowGrid == Len(grid) = 1 /\ Len(grid[1]) = Len(p1Range)

\* The fields of the cell's configuration other than parameter 1's.
notFirstParameter ==
    {f \in DOMAIN baseParams : p1Key \notin DOMAIN paramKeyMap \/ f # paramKeyMap[p1Key]}

\* C22: with the second range unused the grid has exactly one row of
\* |range1| cells, and in every cell evaluated every field but parameter 1's
\* (the second parameter's among them) keeps the base configuration's value.
C22_SecondRangeUnused ==
    (secondRangeUnused /\ sweepEntered) =>
        /\ oneRowGrid
        /\ currentParams # <<>> =>
              \A f \in notFirstParameter : currentParams[f] = baseParams[f]

\* The part of C22 about the shape of the grid.
gridShapeWhenUnused ==
    (secondRangeUnused /\ sweepEntered) => oneRowGrid

-----------------------------------------------------------------------------
(* runBacktest: the shape of the ledger.                                   *)

\* C23: the ledger alternates buy, sell, buy, ... from a buy; so every sell
\* is paired with the record just before it, carries that buy's share count,
\* and the returned numTrades is the number of sells in the ledger.
C23_LedgerAlternates ==
    /\ \A k \in DOMAIN trades :
          trades[k].type = IF k % 2 = 1 THEN "buy" ELSE "sell"
    /\ \A k \in sells(trades) : trades[k].shares = trades[k - 1].shares
    /\ pc = "done" =>
          /\ result.trades = trades
          /\ result.metrics.numTrades = Cardinality(sells(result.trades))
          /\ \A j \in DOMAIN paired(result.trades) :
                paired(result.trades)[j] =
                    [buy |-> result.trades[2 * j - 1], sell |-> result.trades[2 * j]]

\* A returned ledger of a buy, its sell and a second buy on the sell's bar.
C23_Witness ==
    /\ pc = "done"
    /\ Len(result.trades) = 3
    /\ result.trades[2].date = result.trades[3].date
    /\ result.metrics.numTrades = 1

-----------------------------------------------------------------------------
(* runBacktest: peak and maxDrawdown.                                      *)

\* The maximum of the initial capital and the first k equity values.
RECURSIVE peakUpTo(_)
peakUpTo(k) ==
    IF k = 0 THEN Num(initialCapital)
    ELSE IF Gt(equity[k], peakUpTo(k - 1)) THEN equity[k] ELSE peakUpTo(k - 1)

\* (peak - equity) / peak x 100 at the end of bar k.
drawdownAt(k) ==
    Div(Mul(Sub(peakUpTo(k), equity[k]), Num(100)), peakUpTo(k))

\* The largest drawdown of the first k bars.
RECURSIVE drawdownUpTo(_)
drawdownUpTo(k) ==
    IF k = 0 THEN Num(0)
    ELSE IF Gt(drawdownAt(k), drawdownUpTo(k - 1)) THEN drawdownAt(k)
    ELSE drawdownUpTo(k - 1)

\* C24: throughout the loop peak is the maximum of 10,000 and the equity
\* values appended so far, maxDD is the largest of the bars' drawdowns
\* (peak - equity)/peak x 100 so far, it is >= 0, and no step lowers it.
C24_PeakAndDrawdown ==
    /\ [](/\ peak = peakUpTo(Len(equity))
          /\ maxDD = drawdownUpTo(Len(equity))
          /\ Ge(maxDD, Num(0))
          /\ pc = "done" => result.metrics.maxDrawdown = maxDD)
    /\ [][Le(maxDD, maxDD')]_vars

\* A bar was marked at a new peak after a bar with a drawdown, and a later
\* bar fell back by less than the largest drawdown.
C24_Witness ==
    /\ Len(equity) = 3
    /\ Gt(peak, Num(initialCapital))
    /\ Gt(maxDD, Num(0))
    /\ Lt(drawdownAt(3), maxDD)

\* A sweep key that is not a name of paramKeyMap; 'select' as the second key
\* stands for no second parameter.
unsupportedKey ==
    \/ p1Key \notin DOMAIN paramKeyMap
    \/ p2Key # "select" /\ p2Key \notin DOMAIN paramKeyMap

\* C25: a sweep with an unsupported parameter name is rejected at setup: no
\* cell is evaluated and no grid and best are returned for it.
C25_UnsupportedKeyRejected ==
    unsupportedKey =>
        /\ currentParams = <<>>
        /\ opc = "done" => optResult.best = null

\* Every cell of a sweep with an unsupported first key ran on the unchanged
\* base configuration and a grid was returned.
ignoredKey ==
    /\ p1Key \notin DOMAIN paramKeyMap
    /\ opc = "done"
    /\ currentParams = baseParams
    /\ Len(optResult.grid) = 1 /\ Len(optResult.grid[1]) = Len(p1Range)

-----------------------------------------------------------------------------
(* runBacktest: the entry bar.                                             *)

\* C26: a position is never closed on the bar it was opened on: every sell
\* is dated on a later bar than the buy it closes, whatever the entry bar's
\* high and low.
C26_NoExitOnEntryBar ==
    \A k \in sells(trades) :
        barOf(trades[k].date) > barOf(trades[k - 1].date)

\* A position opened on a bar whose low is at or below its stop level was
\* held through that bar and sold on the next.
C26_Witness ==
    \E k \in sells(trades) :
        /\ Le(At(data.l, barOf(trades[k - 1].date)),
              stopOf(k - 1, barOf(trades[k - 1].date)))
        /\ barOf(trades[k].date) = barOf(trades[k - 1].date) + 1
        /\ Len(equity) >= barOf(trades[k - 1].date)

\* C27: a bar on which a 'Signal Exit' sell is recorded records no buy; a
\* buy on the bar of a sell follows a take-profit or a stop-loss.
C27_NoReentryAfterSignalExit ==
    \A j, k \in DOMAIN trades :
        (trades[j].type = "sell" /\ trades[k].type = "buy"
            /\ trades[j].date = trades[k].date)
        => trades[j].reason \in {"Take Profit", "Stop Loss"}

\* The entry rule has run on a bar with a 'Signal Exit', whose previous bar
\* carried the sell signal, and bought nothing.
C27_Witness ==
    /\ pc = "mark"
    /\ trades # <<>>
    /\ trades[Len(trades)].reason = "Signal Exit"
    /\ trades[Len(trades)].date = At(data.dates, i)
    /\ buyIdx(signals) # {}
    /\ (i - 1) \in sellIdx(signals)

-----------------------------------------------------------------------------
(* runBacktest: the stop-loss fill.                                        *)

\* 1 - slip
keptAfterSlip == Sub(Num(1), Div(p.slipBps, Num(10000)))

\* C28: a 'Stop Loss' sell is dated on a bar whose low is at or below the
\* stop level of the position it closes, is filled at min(open, stop level)
\* x (1 - slip), and its price is not above the position's entry price, so
\* its round trip has a return <= 0.
C28_StopLossFill ==
    \A k \in sells(trades) :
        trades[k].reason = "Stop Loss" =>
            LET b == barOf(trades[k].date)
            IN  /\ Le(At(data.l, b), stopOf(k - 1, b))
                /\ trades[k].price =
                      Mul(MinR(At(data.o, b), stopOf(k - 1, b)), keptAfterSlip)
                /\ Le(trades[k].price, trades[k - 1].price)
                /\ pc = "done" => Le(rets(result.trades)[k \div 2], Num(0))

\* A stop-loss on a bar that opened below the stop level, filled at the open
\* less slippage.
C28_Witness ==
    /\ pc = "done"
    /\ \E k \in sells(trades) :
          /\ trades[k].reason = "Stop Loss"
          /\ Lt(At(data.o, barOf(trades[k].date)), stopOf(k - 1, barOf(trades[k].date)))
          /\ trades[k].price = Mul(At(data.o, barOf(trades[k].date)), keptAfterSlip)
          /\ Lt(trades[k].price, trades[k - 1].price)

\* A stop-loss on a bar that opened above the stop level, filled at the stop
\* level less slippage.
stoppedAtLevel ==
    \E k \in sells(trades) :
        /\ trades[k].reason = "Stop Loss"
        /\ Gt(At(data.o, barOf(trades[k].date)), stopOf(k - 1, barOf(trades[k].date)))
        /\ p.slipBps # Num(0)

-----------------------------------------------------------------------------
(* runBacktest: cash.                                                      *)

\* C29: the cash left by every buy of the ledger is >= 0 (a position that
\* cash does not cover is not bought), and with commission = 0 cash is >= 0
\* after every step.
C29_CashNotNegative ==
    /\ \A k \in buys(trades) : Ge(ledgerCash(trades, k), Num(0))
    /\ (pc = "mark" /\ pos # <<>>) => Ge(cash, Num(0))
    /\ p.commission = Num(0) => Ge(cash, Num(0))

\* A buy under slippage and commission has just taken more than half of
\* cash.
C29_Witness ==
    /\ pc = "mark"
    /\ trades # <<>>
    /\ trades[Len(trades)].type = "buy"
    /\ trades[Len(trades)].date = At(data.dates, i)
    /\ p.commission # Num(0)
    /\ Lt(cash, Num(5000))
    /\ cash = ledgerCash(trades, Len(trades))

-----------------------------------------------------------------------------
(* runBacktest: the ledger after the terminal unwind.                      *)

\* The ledger without its last record.
allButLast(ts) == SubSeq(ts, 1, Len(ts) - 1)

\* The metrics computed from round trips.
roundTripMetrics(m) ==
    <<m.numTrades, m.winRate, m.profitFactor, m.avgWin, m.avgLoss, m.maxConsecLosses>>

\* C30: the unwind adds no record to the ledger; when a position is open
\* after the last bar the returned trades end with a buy that no sell
\* follows, the round-trip metrics are those of the ledger without that buy,
\* and finalEquity includes the position's proceeds.
C30_UnwindUnrecorded ==
    /\ [][pc = "unwind" => trades' = trades]_vars
    /\ []((pc = "done" /\ pos # <<>>) =>
            /\ result.trades = trades
            /\ result.trades[Len(result.trades)].type = "buy"
            /\ result.metrics.numTrades = Cardinality(sells(result.trades))
            /\ \A j \in DOMAIN paired(result.trades) :
                  paired(result.trades)[j].buy # result.trades[Len(result.trades)]
            /\ roundTripMetrics(result.metrics) =
                  roundTripMetrics(metricsOf(data,
                      [locals EXCEPT !.trades = allButLast(result.trades)], cash))
            /\ result.metrics.finalEquity =
                  Add(ledgerCash(trades, Len(trades)),
                      Mul(Num(pos[1].shares), Mul(At(data.c, N - 1), keptAfterSlip))))

\* A run returned with a round trip and a position still open, whose
\* proceeds are in finalEquity.
C30_Witness ==
    /\ pc = "done"
    /\ pos # <<>>
    /\ Len(result.trades) = 3
    /\ result.metrics.numTrades = 1
    /\ Gt(result.metrics.finalEquity, ledgerCash(trades, Len(trades)))

====
